---- MODULE Spec2Model ----
(***************************************************************************)
(* Caching subsystem of the hospital back end: the Redis connection pool   *)
(* (config/redisPool.ts), the cache service (services/cacheService.ts) and *)
(* the read-through / invalidation middleware                              *)
(* (middleware/cacheMiddleware.ts) in front of the appointment routes.     *)
(*                                                                         *)
(* Text (cache keys, glob patterns) is a sequence of atoms: a literal the  *)
(* code concatenates is one atom, an identifier is spelled digit by digit. *)
(* JavaScript values are tagged records; a JSON text is the tagged record  *)
(* of the value JSON.stringify leaves.                                     *)
(***************************************************************************)
EXTENDS Integers, Sequences, FiniteSets, TLC

VARIABLES
    \* ---- cache backend (Redis) and the cache service instance
    store,        \* full key -> [val, exp]: the backend keyspace
    now,          \* backend clock, seconds
    backend,      \* "up" | "down": is the backend reachable
    held,         \* status of CacheService.redis: "none" | "ready" | "reconnecting" | "end"
    published,    \* messages published on backend channels, oldest first
    last,         \* outcome of the last cache-service call
    lastSet,      \* full key -> the last completed set() of that key still standing
    nops,         \* number of cache-service calls made
    subs,         \* channels the held connection has subscribed to
    \* ---- connection pool
    connections,  \* RedisConnectionPool.connections: service name -> connection id (0: none)
    connStatus,   \* connection id -> ioredis status
    connOwner,    \* connection id -> service name it was created for
    calls,        \* caller -> in-flight pool call
    ncalls,       \* number of pool calls started
    \* ---- requests through the middleware
    db,           \* the appointments collection: its version, one per committed mutation
    reqs,         \* the requests made, oldest first, each with the messages it published
    nreqs,        \* number of requests started
    acked,        \* highest database version whose mutation the client saw succeed
    \* ---- key generators
    kg            \* the pair of requests handed to a key generator and the keys made

vars == <<store, now, backend, held, published, last, lastSet, nops, subs,
          connections, connStatus, connOwner, calls, ncalls,
          db, reqs, nreqs, acked, kg>>

svcVars  == <<store, now, backend, held, published, last, lastSet, nops, subs>>
poolVars == <<connections, connStatus, connOwner, calls, ncalls>>
mwVars   == <<db, reqs, nreqs, acked>>

-----------------------------------------------------------------------------
(* Bounds of the model *)

MaxTime  == 3    \* the clock runs from 0 to MaxTime
MaxOps   == 3    \* cache-service calls per run
MaxTtl   == 2    \* largest ttl a caller passes
MaxPoolCalls == 3    \* calls made to the connection pool per run
MaxCallers   == 2    \* pool calls in flight at once
MaxParams    == 2    \* query parameters of a request
MaxReqs      == 3    \* requests made per run
MaxInFlight  == 1    \* requests awaiting their response at once
MaxConcReqs  == 2    \* requests per run when all may be in flight at once
MaxPatterns  == 2    \* patterns in the list of an invalidation wrapper
MaxWrapReqs  == 2    \* requests per run through the generic wrappers

(* Program constants *)

DefaultTTL   == 3600   \* CacheService.defaultTTL
CacheDataTTL == 300    \* default ttl parameter of cacheData
AppointmentsTTL == 300 \* ttl of appointmentsCacheMiddleware
TodaysTTL    == 120    \* ttl of todaysAppointmentsCacheMiddleware

-----------------------------------------------------------------------------
(* JavaScript values and JSON *)

VUndef      == [t |-> "undefined"]
VNull       == [t |-> "null"]
VBool(b)    == [t |-> "bool", b |-> b]
VNum(n)     == [t |-> "num", n |-> n]
VStr(s)     == [t |-> "str", s |-> s]
VDate(d)    == [t |-> "date", iso |-> d]
VCount(c)   == [t |-> "count", count |-> c]          \* the object {count: c}
VEmptyObj   == [t |-> "emptyobj"]                    \* the object {}
RNil        == [t |-> "nil"]                         \* Redis reply for a missing key

\* A response body: {success, data: {ver, date, accessedBy}}.
VBody(ok, ver, by, date) ==
    [t |-> "body", success |-> ok, ver |-> ver, by |-> by, date |-> date]

\* The value JSON.stringify writes for v: a Date becomes its ISO string.
ToJsonValue(v) ==
    IF v.t = "date" THEN VStr(v.iso)
    ELSE IF v.t = "body" THEN
        [v EXCEPT !.date = IF v.date.t = "date" THEN VStr(v.date.iso) ELSE v.date]
    ELSE v

JsonStringify(v) == [t |-> "json", of |-> ToJsonValue(v)]
JsonParse(text)  == text.of

\* JavaScript truthiness, as used by `if (cached)` and `if (cachedData)`.
Truthy(v) ==
    CASE v.t = "undefined" -> FALSE
      [] v.t = "null"      -> FALSE
      [] v.t = "nil"       -> FALSE
      [] v.t = "bool"      -> v.b
      [] v.t = "num"       -> v.n # 0
      [] v.t = "str"       -> v.s # ""
      [] OTHER             -> TRUE

-----------------------------------------------------------------------------
(* Text: keys and glob patterns *)

\* Redis glob matching (KEYS): * matches any run of atoms, ? any one atom.
RECURSIVE GlobMatch(_, _)
GlobMatch(p, s) ==
    IF p = <<>> THEN s = <<>>
    ELSE IF Head(p) = "*" THEN
        GlobMatch(Tail(p), s) \/ (s # <<>> /\ GlobMatch(p, Tail(s)))
    ELSE IF Head(p) = "?" THEN
        s # <<>> /\ GlobMatch(Tail(p), Tail(s))
    ELSE s # <<>> /\ Head(s) = Head(p) /\ GlobMatch(Tail(p), Tail(s))

\* process.env.NODE_ENV || 'dev'
EnvPrefix == "dev"

\* CacheService.generateKey: prefix:namespace:key, or prefix:key without namespace.
generateKey(key, namespace) ==
    IF namespace # "" THEN <<EnvPrefix, ":", namespace, ":">> \o key
    ELSE <<EnvPrefix, ":">> \o key

-----------------------------------------------------------------------------
(* The backend keyspace *)

NoStore == [k \in {} |-> 0]

\* GET: the text stored under k, nil once the entry is gone or expired.
RedisGet(st, t, k) ==
    IF k \in DOMAIN st /\ t < st[k].exp THEN st[k].val ELSE RNil

\* SETEX k ttl text
RedisSetex(st, t, k, ttl, text) ==
    [x \in DOMAIN st \cup {k} |-> IF x = k THEN [val |-> text, exp |-> t + ttl] ELSE st[x]]

\* DEL of a set of keys
RedisDel(st, ks) == [x \in DOMAIN st \ ks |-> st[x]]

\* KEYS pattern: the live keys the glob pattern matches
RedisKeys(st, t, pattern) ==
    {k \in DOMAIN st : t < st[k].exp /\ GlobMatch(pattern, k)}

\* TTL k: -2 for a missing key, else the seconds left
RedisTtl(st, t, k) ==
    IF k \in DOMAIN st /\ t < st[k].exp THEN st[k].exp - t ELSE 0 - 2

\* What expiry leaves at time t
Unexpired(st, t) == [x \in {k \in DOMAIN st : t < st[k].exp} |-> st[x]]

-----------------------------------------------------------------------------
(* Cache service: one instance, service name http-server *)

ServiceName == "http-server"
InvalidateChannel == <<"cache:invalidate">>

\* Outcome of a call: it returned ret, or it raised. failed: a backend error
\* happened inside the call.
Returned(op, ck, ret, failed) ==
    [op |-> op, ck |-> ck, raised |-> FALSE, failed |-> failed, ret |-> ret, at |-> now]
Raised(op, ck) ==
    [op |-> op, ck |-> ck, raised |-> TRUE, failed |-> TRUE, ret |-> VUndef, at |-> now]

\* CacheService.ensureConnection: the held connection is kept when ready,
\* otherwise initialize() asks the pool for one, which fails when the backend is
\* down. fresh: the connection in hand is a new one.
EnsureConnectionKeepsHeld == [ok |-> held = "ready", held |-> held, fresh |-> FALSE]
EnsureConnection ==
    IF held = "ready" THEN [ok |-> TRUE, held |-> held, fresh |-> FALSE]
    ELSE IF backend = "up" THEN [ok |-> TRUE, held |-> "ready", fresh |-> TRUE]
    ELSE [ok |-> FALSE, held |-> held, fresh |-> FALSE]

\* The subscriptions of the connection in hand after ensureConnection.
SubsInHand == IF EnsureConnection.fresh THEN {} ELSE subs

\* A key-value command on the acquired connection succeeds when the backend
\* answers, the connection is not in subscriber mode (ioredis refuses other
\* commands there) and the command itself does not fail (cmdFail: time-out,
\* server error).
CmdOk(cmdFail) ==
    EnsureConnection.ok /\ backend = "up" /\ SubsInHand = {} /\ ~cmdFail

\* `options?.ttl || this.defaultTTL`
SetTtlDefaultOnly(opt) == DefaultTTL
SetTtl(opt) == IF Truthy(opt) THEN opt.n ELSE DefaultTTL

\* The catch blocks of the operations: log, and return the safe default.
SetCatch(ck)        == Returned("set", ck, VUndef, TRUE)
GetCatchRethrow(ck) == Raised("get", ck)
GetCatch(ck)        == Returned("get", ck, VNull, TRUE)
DeleteCatch(ck)     == Returned("delete", ck, VUndef, TRUE)
PatternCatch(ck)    == Returned("deleteByPattern", ck, VUndef, TRUE)
ExistsCatch(ck)     == Returned("exists", ck, VBool(FALSE), TRUE)
TtlCatch(ck)        == Returned("getTTL", ck, VNum(0 - 1), TRUE)
FlushCatch          == Returned("flushAll", <<>>, VUndef, TRUE)

Forget(ls, ks) == [x \in DOMAIN ls \ ks |-> ls[x]]

\* set(key, value, {ttl, namespace})
Set(key, value, ttlOpt, ns, cmdFail) ==
    LET ck  == generateKey(key, ns)
        ttl == SetTtl(ttlOpt)
        ok  == CmdOk(cmdFail) /\ ttl > 0
    IN /\ nops < MaxOps
       /\ nops' = nops + 1
       /\ held' = EnsureConnection.held
       /\ store' = IF ok THEN RedisSetex(store, now, ck, ttl, JsonStringify(value))
                   ELSE store
       /\ lastSet' = IF ok
                     THEN [x \in DOMAIN lastSet \cup {ck} |->
                             IF x = ck THEN [t |-> now, ttl |-> ttlOpt, val |-> value,
                                             fresh |-> EnsureConnection.fresh]
                             ELSE lastSet[x]]
                     ELSE lastSet
       /\ last' = IF ok THEN Returned("set", ck, VUndef, FALSE) ELSE SetCatch(ck)
       /\ subs' = SubsInHand
       /\ UNCHANGED <<now, backend, published>>

\* What get returns for the full key ck; ok: the backend answered the GET.
GetReturn(ck, ok) ==
    LET cached == RedisGet(store, now, ck)
    IN IF ok
       THEN IF Truthy(cached) THEN Returned("get", ck, JsonParse(cached), FALSE)
            ELSE Returned("get", ck, VNull, FALSE)
       ELSE GetCatch(ck)

\* get(key, {namespace})
Get(key, ns, cmdFail) ==
    LET ck == generateKey(key, ns)
    IN /\ nops < MaxOps
       /\ nops' = nops + 1
       /\ held' = EnsureConnection.held
       /\ last' = GetReturn(ck, CmdOk(cmdFail))
       /\ subs' = SubsInHand
       /\ UNCHANGED <<store, now, backend, published, lastSet>>

\* delete(key, {namespace})
Delete(key, ns, cmdFail) ==
    LET ck == generateKey(key, ns)
        ok == CmdOk(cmdFail)
    IN /\ nops < MaxOps
       /\ nops' = nops + 1
       /\ held' = EnsureConnection.held
       /\ store' = IF ok THEN RedisDel(store, {ck}) ELSE store
       /\ lastSet' = IF ok THEN Forget(lastSet, {ck}) ELSE lastSet
       /\ last' = IF ok THEN Returned("delete", ck, VUndef, FALSE) ELSE DeleteCatch(ck)
       /\ subs' = SubsInHand
       /\ UNCHANGED <<now, backend, published>>

\* `this.generateKey(pattern, options?.namespace)`: the pattern KEYS is given.
SearchPatternAnyNamespace(pattern, ns) == <<EnvPrefix, ":", "*", ":">> \o pattern
SearchPattern(pattern, ns) == generateKey(pattern, ns)

\* `if (keys.length > 0)`: the DEL is sent only for a non-empty reply of KEYS.
DelIssuedAlways(keys) == TRUE
DelIssued(keys) == keys # {}

\* deleteByPattern(pattern, {namespace}): KEYS, then one DEL of what it found.
\* keysFail, delFail: the KEYS and the DEL command fail.
DeleteByPattern(pattern, ns, keysFail, delFail) ==
    LET searchPattern == SearchPattern(pattern, ns)
        keys == RedisKeys(store, now, searchPattern)
        ok   == CmdOk(keysFail) /\ (DelIssued(keys) => ~delFail)
    IN /\ nops < MaxOps
       /\ nops' = nops + 1
       /\ held' = EnsureConnection.held
       /\ store' = IF ok THEN RedisDel(store, keys) ELSE store
       /\ lastSet' = IF ok THEN Forget(lastSet, keys) ELSE lastSet
       /\ last' = IF ok THEN Returned("deleteByPattern", searchPattern, VUndef, FALSE)
                  ELSE PatternCatch(searchPattern)
       /\ subs' = SubsInHand
       /\ UNCHANGED <<now, backend, published>>

\* exists(key, {namespace})
Exists(key, ns, cmdFail) ==
    LET ck == generateKey(key, ns)
    IN /\ nops < MaxOps
       /\ nops' = nops + 1
       /\ held' = EnsureConnection.held
       /\ last' = IF CmdOk(cmdFail)
                  THEN Returned("exists", ck, VBool(Truthy(RedisGet(store, now, ck))), FALSE)
                  ELSE ExistsCatch(ck)
       /\ subs' = SubsInHand
       /\ UNCHANGED <<store, now, backend, published, lastSet>>

\* getTTL(key, {namespace})
GetTTL(key, ns, cmdFail) ==
    LET ck == generateKey(key, ns)
    IN /\ nops < MaxOps
       /\ nops' = nops + 1
       /\ held' = EnsureConnection.held
       /\ last' = IF CmdOk(cmdFail)
                  THEN Returned("getTTL", ck, VNum(RedisTtl(store, now, ck)), FALSE)
                  ELSE TtlCatch(ck)
       /\ subs' = SubsInHand
       /\ UNCHANGED <<store, now, backend, published, lastSet>>

\* flushAll()
FlushAll(cmdFail) ==
    LET ok == CmdOk(cmdFail)
    IN /\ nops < MaxOps
       /\ nops' = nops + 1
       /\ held' = EnsureConnection.held
       /\ store' = IF ok THEN NoStore ELSE store
       /\ lastSet' = IF ok THEN NoStore ELSE lastSet
       /\ last' = IF ok THEN Returned("flushAll", <<>>, VUndef, FALSE) ELSE FlushCatch
       /\ subs' = SubsInHand
       /\ UNCHANGED <<now, backend, published>>

\* setBatch(items, namespace): one pipeline of SETEX commands.
BatchCatch == Returned("setBatch", <<>>, VUndef, TRUE)

\* A SETEX of the pipeline whose ttl is not positive is answered with an error
\* in the reply of exec() and stores nothing; the other commands still run.
RECURSIVE SetexAll(_, _, _, _)
SetexAll(st, t, items, ns) ==
    IF items = <<>> THEN st
    ELSE SetexAll(IF SetTtl(Head(items).ttl) > 0
                  THEN RedisSetex(st, t, generateKey(Head(items).key, ns),
                                  SetTtl(Head(items).ttl),
                                  JsonStringify(Head(items).value))
                  ELSE st,
                  t, Tail(items), ns)

BatchKeys(items, ns) == {generateKey(items[i].key, ns) : i \in DOMAIN items}

SetBatch(items, ns, cmdFail) ==
    LET ok == CmdOk(cmdFail)
    IN /\ nops < MaxOps
       /\ nops' = nops + 1
       /\ held' = EnsureConnection.held
       /\ store' = IF ok THEN SetexAll(store, now, items, ns) ELSE store
       /\ lastSet' = IF ok THEN Forget(lastSet, BatchKeys(items, ns)) ELSE lastSet
       /\ last' = IF ok THEN Returned("setBatch", <<>>, VUndef, FALSE) ELSE BatchCatch
       /\ subs' = SubsInHand
       /\ UNCHANGED <<now, backend, published>>

\* getBatch(keys, namespace): one MGET; result[key] is the parsed value or null.
VMap(m) == [t |-> "map", m |-> m]
KeySet(keys) == {keys[i] : i \in DOMAIN keys}
GetBatchCatch(keys) ==
    Returned("getBatch", keys, VMap([k \in KeySet(keys) |-> VNull]), TRUE)

\* `keys.forEach((originalKey, index) => ... values[index] ...)` assigns in
\* order: the value at the last index of a key is the one result[key] keeps.
BatchIndexFirstValue(keys, k) == 1
BatchIndex(keys, k) ==
    CHOOSE i \in DOMAIN keys : keys[i] = k /\ \A j \in DOMAIN keys : keys[j] = k => j <= i

GetBatch(keys, ns, cmdFail) ==
    LET values == [i \in DOMAIN keys |-> RedisGet(store, now, generateKey(keys[i], ns))]
        result == [k \in KeySet(keys) |->
                     IF Truthy(values[BatchIndex(keys, k)])
                     THEN JsonParse(values[BatchIndex(keys, k)])
                     ELSE VNull]
    IN /\ nops < MaxOps
       /\ nops' = nops + 1
       /\ held' = EnsureConnection.held
       /\ last' = IF CmdOk(cmdFail) THEN Returned("getBatch", keys, VMap(result), FALSE)
                  ELSE GetBatchCatch(keys)
       /\ subs' = SubsInHand
       /\ UNCHANGED <<store, now, backend, published, lastSet>>

\* publish(channel, data): the payload wrapped as {timestamp, service, data}.
Envelope(data) ==
    [t |-> "envelope", timestamp |-> now, service |-> ServiceName, data |-> data]
PublishCatch(channel) == Returned("publish", channel, VUndef, TRUE)

Publish(channel, data, cmdFail) ==
    LET ok == CmdOk(cmdFail)
    IN /\ nops < MaxOps
       /\ nops' = nops + 1
       /\ held' = EnsureConnection.held
       /\ published' = IF ok
                       THEN Append(published, [channel |-> channel,
                                               message |-> JsonStringify(Envelope(data))])
                       ELSE published
       /\ last' = IF ok THEN Returned("publish", channel, VUndef, FALSE)
                  ELSE PublishCatch(channel)
       /\ subs' = SubsInHand
       /\ UNCHANGED <<store, now, backend, lastSet>>

\* subscribe(channel, callback): SUBSCRIBE on the held connection, not awaited;
\* a failure of the command reaches only its callback.
SubscribeCatch(channel) == Returned("subscribe", channel, VUndef, TRUE)

Subscribe(channel, cmdFail) ==
    LET ec == EnsureConnection
    IN /\ nops < MaxOps
       /\ nops' = nops + 1
       /\ held' = ec.held
       /\ subs' = IF ec.ok /\ backend = "up" /\ ~cmdFail
                  THEN SubsInHand \cup {channel} ELSE SubsInHand
       /\ last' = IF ec.ok THEN Returned("subscribe", channel, VUndef, cmdFail)
                  ELSE SubscribeCatch(channel)
       /\ UNCHANGED <<store, now, backend, published, lastSet>>

\* The 'message' listener that subscribe(channel, callback) registers: what
\* the callback is called with when message m arrives on the connection.
OnMessage(channel, m) ==
    IF m.channel = channel THEN <<JsonParse(m.message).data>> ELSE <<>>

\* invalidateCache(namespace, pattern?): deleteByPattern, then publishInvalidation;
\* each catches its own errors.
VInvalidation(ns, pattern) ==
    [t |-> "invalidation", namespace |-> ns, pattern |-> pattern, service |-> ServiceName]

InvalidatePattern(patternOpt) == IF patternOpt = <<>> THEN <<"*">> ELSE patternOpt

InvalidateCache(ns, patternOpt, keysFail, delFail, pubFail) ==
    LET deletePattern == InvalidatePattern(patternOpt)
        searchPattern == SearchPattern(deletePattern, ns)
        keys  == RedisKeys(store, now, searchPattern)
        delOk == CmdOk(keysFail) /\ (keys = {} \/ ~delFail)
        pubOk == CmdOk(pubFail)
    IN /\ nops < MaxOps
       /\ nops' = nops + 1
       /\ held' = EnsureConnection.held
       /\ store' = IF delOk THEN RedisDel(store, keys) ELSE store
       /\ lastSet' = IF delOk THEN Forget(lastSet, keys) ELSE lastSet
       /\ published' = IF pubOk
                       THEN Append(published,
                                   [channel |-> InvalidateChannel,
                                    message |-> JsonStringify(
                                        Envelope(VInvalidation(ns, deletePattern)))])
                       ELSE published
       /\ last' = Returned("invalidateCache", searchPattern, VUndef, ~(delOk /\ pubOk))
       /\ subs' = SubsInHand
       /\ UNCHANGED <<now, backend>>

\* getCacheStats(): INFO memory, INFO keyspace, then the pool's introspection.
VStats == [t |-> "stats", service |-> ServiceName]
StatsCatch == Returned("getCacheStats", <<>>, VEmptyObj, TRUE)

GetCacheStats(cmdFail) ==
    /\ nops < MaxOps
    /\ nops' = nops + 1
    /\ held' = EnsureConnection.held
    /\ last' = IF CmdOk(cmdFail) THEN Returned("getCacheStats", <<>>, VStats, FALSE)
               ELSE StatsCatch
    /\ subs' = SubsInHand
    /\ UNCHANGED <<store, now, backend, published, lastSet>>

\* cleanup(): the pool closes the connection (closeConnection never raises),
\* then the reference is dropped.
Cleanup ==
    /\ nops < MaxOps
    /\ nops' = nops + 1
    /\ held' = "none"
    /\ subs' = {}
    /\ last' = Returned("cleanup", <<>>, VUndef, backend # "up")
    /\ UNCHANGED <<store, now, backend, published, lastSet>>

-----------------------------------------------------------------------------
(* Environment of the cache service *)

\* A second passes; expired entries are gone.
Tick ==
    /\ now < MaxTime
    /\ now' = now + 1
    /\ store' = Unexpired(store, now + 1)
    /\ UNCHANGED <<backend, held, published, last, lastSet, nops, subs>>

\* The backend becomes unreachable: a ready connection starts reconnecting.
BackendDown ==
    /\ backend = "up"
    /\ backend' = "down"
    /\ held' = IF held = "ready" THEN "reconnecting" ELSE held
    /\ UNCHANGED <<store, now, published, last, lastSet, nops, subs>>

\* The backend is back: the transport's retry makes the connection ready again.
BackendUp ==
    /\ backend = "down"
    /\ backend' = "up"
    /\ held' = IF held = "reconnecting" THEN "ready" ELSE held
    /\ UNCHANGED <<store, now, published, last, lastSet, nops, subs>>

-----------------------------------------------------------------------------
(* The cache service under every backend state: inputs and specification *)

P123  == <<"1", "2", "3">>
P1234 == <<"1", "2", "3", "4">>
P9    == <<"9">>

\* A key cached for a patient: the patient:<id> segment, then further filters.
PatientKey(id, rest) == <<"list", ":", "patient:">> \o id \o rest
\* The invalidation pattern handlers use for a patient: *patient:<id>*
PatientPattern(id) == <<"*", "patient:">> \o id \o <<"*">>

SvcKeys       == {PatientKey(P123, <<>>), PatientKey(P1234, <<>>), PatientKey(P9, <<>>)}
SvcNamespaces == {"appointments"}
SvcValues     == {VCount(3), VNum(0)}
SvcTtls       == {VUndef} \cup {VNum(n) : n \in 0..MaxTtl}
SvcPatterns   == {<<>>, PatientPattern(P123)}
SvcChannels   == {<<"dashboard">>}
SvcBatches    ==
    {<<[key |-> PatientKey(P123, <<>>), value |-> VCount(3), ttl |-> VNum(1)],
       [key |-> PatientKey(P9, <<>>), value |-> VNum(0), ttl |-> VUndef]>>}
SvcKeyLists   ==
    {<<PatientKey(P9, <<>>), PatientKey(P123, <<>>)>>,
     <<PatientKey(P123, <<>>), PatientKey(P9, <<>>)>>,
     <<PatientKey(P1234, <<>>)>>}

NoCall == [op |-> "none", ck |-> <<>>, raised |-> FALSE, failed |-> FALSE,
           ret |-> VUndef, at |-> 0]

SvcIdle ==
    /\ store = NoStore /\ now = 0 /\ backend = "up" /\ held = "none"
    /\ published = <<>> /\ last = NoCall /\ lastSet = NoStore /\ nops = 0 /\ subs = {}

PoolIdle ==
    /\ connections = <<>> /\ connStatus = <<>> /\ connOwner = <<>>
    /\ calls = <<>> /\ ncalls = 0

MwIdle == db = 0 /\ reqs = <<>> /\ nreqs = 0 /\ acked = 0

KgIdle ==
    kg = [gen |-> "none", path |-> <<"/">>, q1 |-> <<>>, q2 |-> <<>>, k1 |-> <<>>, k2 |-> <<>>]

SvcInit ==
    /\ store = NoStore /\ now = 0 /\ backend \in {"up", "down"} /\ held = "none"
    /\ published = <<>> /\ last = NoCall /\ lastSet = NoStore /\ nops = 0 /\ subs = {}
    /\ PoolIdle /\ MwIdle /\ KgIdle

SvcOther == UNCHANGED <<poolVars, mwVars, kg>>

SvcNext ==
    \/ \E k \in SvcKeys, v \in SvcValues, ttl \in {VUndef, VNum(1)}, ns \in SvcNamespaces,
          f \in BOOLEAN : Set(k, v, ttl, ns, f) /\ SvcOther
    \/ \E k \in SvcKeys, ns \in SvcNamespaces, f \in BOOLEAN : Get(k, ns, f) /\ SvcOther
    \/ \E k \in SvcKeys, ns \in SvcNamespaces, f \in BOOLEAN : Delete(k, ns, f) /\ SvcOther
    \/ \E p \in SvcPatterns \ {<<>>}, ns \in SvcNamespaces, f, g \in BOOLEAN :
          DeleteByPattern(p, ns, f, g) /\ SvcOther
    \/ \E k \in SvcKeys, ns \in SvcNamespaces, f \in BOOLEAN : Exists(k, ns, f) /\ SvcOther
    \/ \E k \in SvcKeys, ns \in SvcNamespaces, f \in BOOLEAN : GetTTL(k, ns, f) /\ SvcOther
    \/ \E f \in BOOLEAN : FlushAll(f) /\ SvcOther
    \/ \E b \in SvcBatches, ns \in SvcNamespaces, f \in BOOLEAN :
          SetBatch(b, ns, f) /\ SvcOther
    \/ \E ks \in SvcKeyLists, ns \in SvcNamespaces, f \in BOOLEAN :
          GetBatch(ks, ns, f) /\ SvcOther
    \/ \E c \in SvcChannels, f \in BOOLEAN : Publish(c, VCount(3), f) /\ SvcOther
    \/ \E c \in SvcChannels, f \in BOOLEAN : Subscribe(c, f) /\ SvcOther
    \/ \E p \in SvcPatterns, ns \in SvcNamespaces, f, g, h \in BOOLEAN :
          InvalidateCache(ns, p, f, g, h) /\ SvcOther
    \/ \E f \in BOOLEAN : GetCacheStats(f) /\ SvcOther
    \/ Cleanup /\ SvcOther
    \/ BackendDown /\ SvcOther
    \/ BackendUp /\ SvcOther

\* Every operation of the cache service, under a backend that comes and goes.
SpecSvc == SvcInit /\ [][SvcNext]_vars

\* The service after initialize(): a ready connection in hand.
EnsureInit ==
    /\ store = NoStore /\ now = 0 /\ backend = "up" /\ held = "ready"
    /\ published = <<>> /\ last = NoCall /\ lastSet = NoStore /\ nops = 0 /\ subs = {}
    /\ PoolIdle /\ MwIdle /\ KgIdle

EnsureNext ==
    \/ \E k \in SvcKeys, v \in SvcValues, ttl \in {VUndef, VNum(1)}, ns \in SvcNamespaces,
          f \in BOOLEAN : Set(k, v, ttl, ns, f) /\ SvcOther
    \/ \E k \in SvcKeys, ns \in SvcNamespaces, f \in BOOLEAN : Get(k, ns, f) /\ SvcOther
    \/ \E c \in SvcChannels, f \in BOOLEAN : Subscribe(c, f) /\ SvcOther
    \/ Cleanup /\ SvcOther
    \/ BackendDown /\ SvcOther
    \/ BackendUp /\ SvcOther

\* An initialized service that is cleaned up and used again.
SpecEnsure == EnsureInit /\ [][EnsureNext]_vars

\* Two of the configured namespaces, holding keys of the same names.
NsNames    == {"appointments", "patients"}
NsPatterns == {<<>>, PatientPattern(P123), <<"*", ":", "patients", ":", "*">>}

NsNext ==
    \/ \E k \in SvcKeys, v \in SvcValues, ns \in NsNames, f \in BOOLEAN :
          Set(k, v, VUndef, ns, f) /\ SvcOther
    \/ \E p \in NsPatterns, ns \in NsNames, f, g, h \in BOOLEAN :
          InvalidateCache(ns, p, f, g, h) /\ SvcOther
    \/ BackendDown /\ SvcOther
    \/ BackendUp /\ SvcOther

\* Entries of two namespaces and invalidations of either.
SpecNs == SvcInit /\ [][NsNext]_vars

TtlKeys == {PatientKey(P123, <<>>), PatientKey(P9, <<>>)}

TtlNext ==
    \/ \E k \in TtlKeys, v \in SvcValues, ttl \in SvcTtls, ns \in SvcNamespaces,
          f \in BOOLEAN : Set(k, v, ttl, ns, f) /\ SvcOther
    \/ \E k \in TtlKeys, ns \in SvcNamespaces, f \in BOOLEAN : Get(k, ns, f) /\ SvcOther
    \/ \E k \in TtlKeys, ns \in SvcNamespaces, f \in BOOLEAN : Delete(k, ns, f) /\ SvcOther
    \/ Tick /\ SvcOther

\* Entries written, read and deleted while time passes.
SpecTtl == SvcInit /\ [][TtlNext]_vars

-----------------------------------------------------------------------------
(* Claims about the cache service *)

\* The safe default each operation returns when the backend fails it.
SafeDefault(call) ==
    CASE call.op = "get"           -> VNull
      [] call.op = "exists"        -> VBool(FALSE)
      [] call.op = "getTTL"        -> VNum(0 - 1)
      [] call.op = "getBatch"      -> VMap([k \in KeySet(call.ck) |-> VNull])
      [] call.op = "getCacheStats" -> VEmptyObj
      [] OTHER                     -> VUndef

\* C6: every cache-service operation completes without raising, whatever the
\* backend state, and an operation the backend failed returns its safe default
\* (get null, exists false, getTTL -1, getBatch every key null, getCacheStats {}).
C6_NeverRaises ==
    /\ ~last.raised
    /\ last.failed => last.ret = SafeDefault(last)

\* C6 witness: a getBatch that ran into an unreachable backend has returned.
C6_Witness ==
    /\ last.op = "getBatch" /\ last.failed /\ backend = "down"
    /\ last.ret = VMap([k \in KeySet(last.ck) |-> VNull])

\* The get just made reads an entry a set(key, value, {ttl: T}) wrote and that
\* nothing deleted or overwrote since; T admits the values of TtlDomain.
ReadsStandingSet(TtlDomain) ==
    /\ last.op = "get"
    /\ last.ck \in DOMAIN lastSet
    /\ lastSet[last.ck].ttl.t = "num"
    /\ lastSet[last.ck].ttl.n \in TtlDomain

ExpiryRule ==
    LET w == lastSet[last.ck]
    IN /\ (last.at < w.t + w.ttl.n /\ ~last.failed) => last.ret = ToJsonValue(w.val)
       /\ last.at > w.t + w.ttl.n => last.ret = VNull

\* C7 as stated: for an entry written by set with ttl T at time t, a get before
\* t+T returns the stored value and every get after t+T returns null, for every
\* T a caller can pass (0 included).
C7_ExpiryAnyTtl == ReadsStandingSet(0..(MaxTtl + 1)) => ExpiryRule

\* C7 amended: the same for every T >= 1; a ttl of 0 is replaced by the
\* default of 3600 seconds, so the entry outlives t+0.
C7_ExpiryPositiveTtl == ReadsStandingSet(1..(MaxTtl + 1)) => ExpiryRule

\* C7 witness: an entry written with a positive ttl is read after it expired
\* and null comes back.
C7_Witness ==
    /\ ReadsStandingSet(1..(MaxTtl + 1))
    /\ last.at > lastSet[last.ck].t + lastSet[last.ck].ttl.n
    /\ ~last.failed
    /\ lastSet[last.ck].val = VCount(3)
    /\ last.ret = VNull

\* The keys of the namespace cached for patient id.
CachedFor(id, ns) == {generateKey(PatientKey(id, <<>>), ns)}

\* C8: deleteByPattern("*patient:<id>*", namespace) removes every key cached
\* for patient <id> and leaves untouched every key of the namespace cached for
\* another patient, also one whose identifier has <id> as a prefix.
C8_PatternDeleteExact ==
    [][\A ns \in SvcNamespaces :
         (/\ nops' = nops + 1
          /\ last'.op = "deleteByPattern"
          /\ ~last'.failed
          /\ last'.ck = generateKey(PatientPattern(P123), ns))
         => /\ \A k \in CachedFor(P123, ns) : k \notin DOMAIN store'
            /\ \A k \in DOMAIN store \ CachedFor(P123, ns) :
                  k \in DOMAIN store' /\ store'[k] = store[k]]_vars

-----------------------------------------------------------------------------
(* Connection pool: RedisConnectionPool *)

Services == {"http-server", "socket-server"}
Callers  == 1..MaxCallers

ConnIds == DOMAIN connStatus

\* ioredis statuses under which getConnection hands the tracked connection out
Usable(i) == connStatus[i] = "ready" \/ connStatus[i] = "connecting"

\* A connection that has a session with the backend, or had one and is left to
\* the transport's retry to regain it
Live(i) == connStatus[i] \in {"ready", "reconnecting"}

\* A caller's call in progress; `after` is the operation the same caller
\* finished just before this one, `answer` what an inspecting call returns
\* (pairs of a service name and what is reported for it).
IdleCall == [op |-> "idle", svc |-> "", pc |-> "idle", conn |-> 0, saw |-> 0,
             made |-> 0, quitOn |-> 0, result |-> 0, pending |-> {}, after |-> "idle",
             answer |-> {}]

Free(c) == calls[c].pc \in {"idle", "done"}

\* new Redis(config) with lazyConnect, setupConnectionHandlers, then
\* redis.connect(), which is awaited: the caller c goes on in ConnectDone.
NewConnection(c, call) ==
    LET id == Len(connStatus) + 1
    IN /\ connStatus' = Append(connStatus, "connecting")
       /\ connOwner' = Append(connOwner, call.svc)
       /\ calls' = [calls EXCEPT ![c] = [call EXCEPT !.pc = "connect", !.conn = id,
                                                      !.made = id]]

\* getConnection(serviceName) up to its first await: the tracked connection is
\* returned when ready or connecting; otherwise createConnection closes the
\* tracked one if there is one (awaiting quit) or opens a new one.
GetConnection(c, svc) ==
    LET tracked == connections[svc]
        call == [IdleCall EXCEPT !.op = "getConnection", !.svc = svc,
                   !.after = calls[c].op,
                   !.saw = IF tracked # 0 /\ connStatus[tracked] = "reconnecting"
                           THEN tracked ELSE 0]
    IN /\ Free(c) /\ ncalls < MaxPoolCalls
       /\ ncalls' = ncalls + 1
       /\ IF tracked # 0 /\ Usable(tracked)
          THEN /\ calls' = [calls EXCEPT ![c] = [call EXCEPT !.pc = "done",
                                                   !.result = tracked]]
               /\ UNCHANGED <<connStatus, connOwner>>
          ELSE IF tracked # 0
          THEN /\ calls' = [calls EXCEPT ![c] = [call EXCEPT !.pc = "quit",
                                                   !.conn = tracked, !.quitOn = tracked]]
               /\ UNCHANGED <<connStatus, connOwner>>
          ELSE NewConnection(c, call)
       /\ UNCHANGED <<connections, backend>>

\* connection.quit() settles: it is refused on a connection that already ended,
\* and may fail otherwise (ok = FALSE); when it succeeds the connection ends.
QuitOutcome(i, ok) ==
    /\ connStatus[i] = "end" => ~ok
    /\ connStatus' = IF ok THEN [connStatus EXCEPT ![i] = "end"] ELSE connStatus

\* createConnection after `await this.closeConnection(serviceName)`: on a
\* successful quit the service name is deleted from the map, a failed quit is
\* caught; either way a new connection is opened next.
CreateAfterQuit(c, ok) ==
    LET call == calls[c]
        id == Len(connStatus) + 1
    IN /\ call.op = "getConnection" /\ call.pc = "quit"
       /\ connStatus[call.conn] = "end" => ~ok
       /\ connStatus' = Append(IF ok THEN [connStatus EXCEPT ![call.conn] = "end"]
                               ELSE connStatus, "connecting")
       /\ connOwner' = Append(connOwner, call.svc)
       /\ connections' = IF ok THEN [connections EXCEPT ![call.svc] = 0] ELSE connections
       /\ calls' = [calls EXCEPT ![c] = [call EXCEPT !.pc = "connect", !.conn = id,
                                                      !.made = id]]
       /\ UNCHANGED <<ncalls, backend>>

\* `await redis.connect()` settles: with the backend reachable the connection is
\* ready and is stored under the service name; otherwise connect() rejects, the
\* error is rethrown, and the connection object is left to the transport's retry.
ConnectDone(c) ==
    LET call == calls[c]
    IN /\ call.op = "getConnection" /\ call.pc = "connect"
       /\ IF backend = "up"
          THEN /\ connStatus' = [connStatus EXCEPT ![call.conn] = "ready"]
               /\ connections' = [connections EXCEPT ![call.svc] = call.conn]
               /\ calls' = [calls EXCEPT ![c] = [call EXCEPT !.pc = "done",
                                                   !.result = call.conn]]
          ELSE /\ connStatus' = [connStatus EXCEPT ![call.conn] = "reconnecting"]
               /\ connections' = connections
               /\ calls' = [calls EXCEPT ![c] = [call EXCEPT !.pc = "done",
                                                   !.result = 0 - 1]]
       /\ UNCHANGED <<connOwner, ncalls, backend>>

\* closeConnection(serviceName) up to `await connection.quit()`; nothing to do
\* for a name that is not tracked.
CloseConnection(c, svc) ==
    LET tracked == connections[svc]
        call == [IdleCall EXCEPT !.op = "closeConnection", !.svc = svc,
                                 !.after = calls[c].op]
    IN /\ Free(c) /\ ncalls < MaxPoolCalls
       /\ ncalls' = ncalls + 1
       /\ calls' = [calls EXCEPT ![c] =
                      IF tracked = 0 THEN [call EXCEPT !.pc = "done"]
                      ELSE [call EXCEPT !.pc = "quit", !.conn = tracked,
                                        !.quitOn = tracked]]
       /\ UNCHANGED <<connections, connStatus, connOwner, backend>>

\* What a close call hands its caller when the quit rejects: the catch block
\* of closeConnection logs and returns (0: returned normally, -1: raised).
CloseCatchRethrows == 0 - 1
CloseCatch == 0

\* closeConnection after the quit: the name is deleted on success, a failure
\* is caught and leaves the map as it is.
CloseDone(c, ok) ==
    LET call == calls[c]
    IN /\ call.op = "closeConnection" /\ call.pc = "quit"
       /\ QuitOutcome(call.conn, ok)
       /\ connections' = IF ok THEN [connections EXCEPT ![call.svc] = 0] ELSE connections
       /\ calls' = [calls EXCEPT ![c] = [call EXCEPT !.pc = "done",
                                          !.result = IF ok THEN 0 ELSE CloseCatch]]
       /\ UNCHANGED <<connOwner, ncalls, backend>>

\* closeAll(): closeConnection is started for every tracked name at once (each
\* reads its connection and calls quit on it) and all are awaited together.
CloseAll(c) ==
    LET conns == {connections[s] : s \in {x \in Services : connections[x] # 0}}
        call == [IdleCall EXCEPT !.op = "closeAll", !.pending = conns,
                                 !.after = calls[c].op]
    IN /\ Free(c) /\ ncalls < MaxPoolCalls
       /\ ncalls' = ncalls + 1
       /\ calls' = [calls EXCEPT ![c] =
                      [call EXCEPT !.pc = IF conns = {} THEN "done" ELSE "quit"]]
       /\ UNCHANGED <<connections, connStatus, connOwner, backend>>

\* One of closeAll's quits settles, and that closeConnection finishes.
CloseAllDone(c, i, ok) ==
    LET call == calls[c]
        left == call.pending \ {i}
    IN /\ call.op = "closeAll" /\ call.pc = "quit" /\ i \in call.pending
       /\ QuitOutcome(i, ok)
       /\ connections' = IF ok THEN [connections EXCEPT ![connOwner[i]] = 0]
                         ELSE connections
       /\ calls' = [calls EXCEPT ![c] =
                      [call EXCEPT !.pending = left,
                                   !.result = IF ok THEN call.result ELSE CloseCatch,
                                   !.pc = IF left = {} THEN "done" ELSE "quit"]]
       /\ UNCHANGED <<connOwner, ncalls, backend>>

\* The network drops under a ready connection: the transport starts its retry.
ConnLost(i) ==
    /\ connStatus[i] = "ready"
    /\ connStatus' = [connStatus EXCEPT ![i] = "reconnecting"]
    /\ UNCHANGED <<connections, connOwner, calls, ncalls, backend>>

\* The transport's retry succeeds.
ConnRetried(i) ==
    /\ connStatus[i] = "reconnecting" /\ backend = "up"
    /\ connStatus' = [connStatus EXCEPT ![i] = "ready"]
    /\ UNCHANGED <<connections, connOwner, calls, ncalls, backend>>

\* The backend goes away or comes back.
PoolBackendFlip ==
    /\ backend' = IF backend = "up" THEN "down" ELSE "up"
    /\ connStatus' = [i \in DOMAIN connStatus |->
                        IF backend = "up" /\ connStatus[i] = "ready"
                        THEN "reconnecting" ELSE connStatus[i]]
    /\ UNCHANGED <<connections, connOwner, calls, ncalls>>

Tracked == {s \in Services : connections[s] # 0}

\* healthCheck's test before the probe: `connection.status !== 'ready'`
\* returns false without a ping.
PingableAlways(i) == TRUE
Pingable(i) == connStatus[i] = "ready"

\* connection.ping() settles: PONG can only come from a reachable backend over
\* a connection that is ready; any other outcome is a rejection (command
\* timeout, connection ended), which healthCheck's catch turns into false.
PingOutcome(i, pong) == pong => (backend = "up" /\ connStatus[i] = "ready")

\* healthCheck(serviceName) up to `await connection.ping()`.
HealthCheck(c, svc) ==
    LET tracked == connections[svc]
        call == [IdleCall EXCEPT !.op = "healthCheck", !.svc = svc,
                                 !.after = calls[c].op]
    IN /\ Free(c) /\ ncalls < MaxPoolCalls
       /\ ncalls' = ncalls + 1
       /\ calls' = [calls EXCEPT ![c] =
                      IF tracked # 0 /\ Pingable(tracked)
                      THEN [call EXCEPT !.pc = "ping", !.conn = tracked]
                      ELSE [call EXCEPT !.pc = "done", !.answer = {<<svc, FALSE>>}]]
       /\ UNCHANGED <<connections, connStatus, connOwner, backend>>

\* healthCheck after the ping: `result === 'PONG'`, or false from the catch.
HealthDone(c, pong) ==
    LET call == calls[c]
    IN /\ call.op = "healthCheck" /\ call.pc = "ping"
       /\ PingOutcome(call.conn, pong)
       /\ calls' = [calls EXCEPT ![c] = [call EXCEPT !.pc = "done",
                                          !.answer = {<<call.svc, pong>>}]]
       /\ UNCHANGED <<connections, connStatus, connOwner, ncalls, backend>>

\* healthCheckAll's loop from one await to the next: `for (const serviceName of
\* this.connections.keys())` walks the live map, so it goes on over the names
\* tracked now that have no result yet (in the map's order, which is any
\* order here); names whose connection is not ready get false at once, the
\* first ready one is pinged, and with no name left the results are returned.
HealthSweep(c, call) ==
    LET todo == Tracked \ {p[1] : p \in call.answer}
        cold == {s \in todo : ~Pingable(connections[s])}
        No(names) == {<<s, FALSE>> : s \in names}
    IN \/ /\ todo = cold
          /\ calls' = [calls EXCEPT ![c] =
                         [call EXCEPT !.pc = "done", !.svc = "", !.conn = 0,
                                      !.answer = call.answer \cup No(cold)]]
       \/ \E t \in todo \ cold, before \in SUBSET cold :
             calls' = [calls EXCEPT ![c] =
                         [call EXCEPT !.pc = "ping", !.svc = t, !.conn = connections[t],
                                      !.answer = call.answer \cup No(before)]]

\* healthCheckAll() up to its first ping.
HealthCheckAll(c) ==
    /\ Free(c) /\ ncalls < MaxPoolCalls
    /\ ncalls' = ncalls + 1
    /\ HealthSweep(c, [IdleCall EXCEPT !.op = "healthCheckAll", !.after = calls[c].op])
    /\ UNCHANGED <<connections, connStatus, connOwner, backend>>

\* One of healthCheckAll's pings settles and the loop goes on.
HealthAllDone(c, pong) ==
    LET call == calls[c]
    IN /\ call.op = "healthCheckAll" /\ call.pc = "ping"
       /\ PingOutcome(call.conn, pong)
       /\ HealthSweep(c, [call EXCEPT !.answer = call.answer \cup {<<call.svc, pong>>}])
       /\ UNCHANGED <<connections, connStatus, connOwner, ncalls, backend>>

\* The status getConnectionInfo reports for a service name.
ConnectionInfo(svc) ==
    IF connections[svc] = 0 THEN "not_found" ELSE connStatus[connections[svc]]

GetConnectionInfoCreates(c, svc) == svc # "" /\ GetConnection(c, svc)

\* getConnectionInfo(serviceName?): synchronous; one record for a name, the
\* records of all tracked names without one (svc = "").
GetConnectionInfo(c, svc) ==
    LET call == [IdleCall EXCEPT !.op = "getConnectionInfo", !.svc = svc,
                                 !.after = calls[c].op, !.pc = "done"]
    IN /\ Free(c) /\ ncalls < MaxPoolCalls
       /\ ncalls' = ncalls + 1
       /\ calls' = [calls EXCEPT ![c] =
                      [call EXCEPT !.answer =
                         IF svc # "" THEN {<<svc, ConnectionInfo(svc)>>}
                         ELSE {<<s, ConnectionInfo(s)>> : s \in Tracked}]]
       /\ UNCHANGED <<connections, connStatus, connOwner, backend>>

\* The filter of getActiveConnections.
ActiveConnectionsAllTracked == Tracked
ActiveConnections == {s \in Tracked : connStatus[connections[s]] = "ready"}

\* getActiveConnections(): synchronous.
GetActiveConnections(c) ==
    /\ Free(c) /\ ncalls < MaxPoolCalls
    /\ ncalls' = ncalls + 1
    /\ calls' = [calls EXCEPT ![c] =
                   [IdleCall EXCEPT !.op = "getActiveConnections", !.pc = "done",
                                    !.after = calls[c].op,
                                    !.answer = {<<s, "active">> : s \in ActiveConnections}]]
    /\ UNCHANGED <<connections, connStatus, connOwner, backend>>

PoolInit ==
    /\ connections = [s \in Services |-> 0]
    /\ connStatus = <<>> /\ connOwner = <<>>
    /\ calls = [c \in Callers |-> IdleCall]
    /\ ncalls = 0
    /\ store = NoStore /\ now = 0 /\ backend \in {"up", "down"} /\ held = "none"
    /\ published = <<>> /\ last = NoCall /\ lastSet = NoStore /\ nops = 0 /\ subs = {}
    /\ MwIdle /\ KgIdle

PoolOther ==
    UNCHANGED <<store, now, held, published, last, lastSet, nops, subs, mwVars, kg>>

PoolNext ==
    \/ \E c \in Callers, s \in Services : GetConnection(c, s) /\ PoolOther
    \/ \E c \in Callers, ok \in BOOLEAN : CreateAfterQuit(c, ok) /\ PoolOther
    \/ \E c \in Callers : ConnectDone(c) /\ PoolOther
    \/ \E c \in Callers, s \in Services : CloseConnection(c, s) /\ PoolOther
    \/ \E c \in Callers, ok \in BOOLEAN : CloseDone(c, ok) /\ PoolOther
    \/ \E c \in Callers : CloseAll(c) /\ PoolOther
    \/ \E c \in Callers, i \in ConnIds, ok \in BOOLEAN : CloseAllDone(c, i, ok) /\ PoolOther
    \/ \E i \in ConnIds : ConnLost(i) /\ PoolOther
    \/ \E i \in ConnIds : ConnRetried(i) /\ PoolOther
    \/ PoolBackendFlip /\ PoolOther

\* The pool under overlapping calls and a backend that comes and goes.
SpecPool == PoolInit /\ [][PoolNext]_vars

InspectNext ==
    \/ \E c \in Callers, s \in Services : HealthCheck(c, s) /\ PoolOther
    \/ \E c \in Callers, pong \in BOOLEAN : HealthDone(c, pong) /\ PoolOther
    \/ \E c \in Callers : HealthCheckAll(c) /\ PoolOther
    \/ \E c \in Callers, pong \in BOOLEAN : HealthAllDone(c, pong) /\ PoolOther
    \/ \E c \in Callers, s \in Services \cup {""} : GetConnectionInfo(c, s) /\ PoolOther
    \/ \E c \in Callers : GetActiveConnections(c) /\ PoolOther

\* The pool with its health checks and inspection calls among the others.
SpecPoolOps == PoolInit /\ [][PoolNext \/ InspectNext]_vars

-----------------------------------------------------------------------------
(* Claims about the connection pool *)

LiveFor(svc) == {i \in ConnIds : connOwner[i] = svc /\ Live(i)}

\* C4: in every reachable state of the pool, under any interleaving of
\* getConnection, closeConnection and closeAll (two getConnection calls for one
\* name overlapping while the connect is pending included), at most one live
\* backend connection exists per service name.
C4_OneLiveConnectionPerService ==
    \A svc \in Services : Cardinality(LiveFor(svc)) <= 1

\* C5: a getConnection called while the tracked connection is reconnecting
\* returns that same connection; it neither closes it nor creates a second one.
C5_ReconnectingIsReturned ==
    \A c \in Callers :
        (calls[c].op = "getConnection" /\ calls[c].pc = "done" /\ calls[c].saw # 0)
        => /\ calls[c].result = calls[c].saw
           /\ calls[c].quitOn = 0
           /\ calls[c].made = 0

-----------------------------------------------------------------------------
(* Key generators of the read-through wrapper *)

\* A query is the sequence of the request's parameters in the order the URL
\* gives them: [name, value] with distinct names.
Param(query, name) ==
    IF \E i \in DOMAIN query : query[i].name = name
    THEN query[CHOOSE i \in DOMAIN query : query[i].name = name].value
    ELSE ""

\* new URLSearchParams(query).toString(): name=value joined by &, in the
\* order of the query object, which is the order of the URL.
RECURSIVE QueryString(_)
QueryString(query) ==
    IF query = <<>> THEN <<>>
    ELSE <<Head(query).name, "=", Head(query).value>>
         \o (IF Tail(query) = <<>> THEN <<>> ELSE <<"&">> \o QueryString(Tail(query)))

\* generateCacheKey: the default key of a request.
generateCacheKey(method, path, query) ==
    IF method = "GET"
    THEN IF QueryString(query) # <<>> THEN path \o <<"?">> \o QueryString(query)
         ELSE path
    ELSE path

\* The text of a parameter value, cut where the keys are cut: a value that
\* contains the separator and a label of the generators is several pieces.
Atoms(value) ==
    IF value = "x:status:paid" THEN <<"x", ":", "status:", "paid">> ELSE <<value>>

\* parts.push(`label${value}`) when cond, and parts.join(":")
Part(cond, label, value) == IF cond THEN <<":", label>> \o Atoms(value) ELSE <<>>

\* keyGenerator of billsCacheMiddleware
billsKey(path, query) ==
    path
    \o Part(Param(query, "search") # "", "search:", Param(query, "search"))
    \o Part(Param(query, "status") # "" /\ Param(query, "status") # "all",
            "status:", Param(query, "status"))
    \o Part(Param(query, "fromDate") # "", "from:", Param(query, "fromDate"))
    \o Part(Param(query, "toDate") # "", "to:", Param(query, "toDate"))
    \o Part(Param(query, "page") # "", "page:", Param(query, "page"))
    \o Part(Param(query, "limit") # "", "limit:", Param(query, "limit"))

\* new Date().toISOString().split("T")[0]
Today == "2024-01-15"

\* keyGenerator of appointmentsCacheMiddleware
appointmentsKey(path, query) ==
    IF path = <<"/", "today">> THEN path \o <<":", "today:", Today>>
    ELSE path
         \o Part(Param(query, "department") # "" /\ Param(query, "department") # "all",
                 "dept:", Param(query, "department"))
         \o Part(Param(query, "doctorName") # "", "doctor:", Param(query, "doctorName"))
         \o Part(Param(query, "status") # "" /\ Param(query, "status") # "all",
                 "status:", Param(query, "status"))
         \o Part(Param(query, "appointmentDate") # "", "date:",
                 Param(query, "appointmentDate"))
         \o Part(Param(query, "fromDate") # "", "from:", Param(query, "fromDate"))
         \o Part(Param(query, "toDate") # "", "to:", Param(query, "toDate"))
         \o Part(Param(query, "page") # "", "page:", Param(query, "page"))
         \o Part(Param(query, "limit") # "", "limit:", Param(query, "limit"))

\* keyGenerator of todaysAppointmentsCacheMiddleware
todaysKey(path, query) == <<"today", ":", "appointments", ":", Today>>

KgParams ==
    {[name |-> "status", value |-> "paid"], [name |-> "status", value |-> "all"],
     [name |-> "page", value |-> "2"], [name |-> "department", value |-> "Cardiology"],
     [name |-> "search", value |-> "x"]}
KgPaths == {<<"/">>, <<"/", "today">>, <<"/", "getAllBill">>}

DistinctNames(query) ==
    \A i, j \in DOMAIN query : query[i].name = query[j].name => i = j
Queries ==
    {q \in UNION {[1..n -> KgParams] : n \in 0..MaxParams} : DistinctNames(q)}
SameParams(q1, q2) ==
    Len(q1) = Len(q2) /\ {q1[i] : i \in DOMAIN q1} = {q2[i] : i \in DOMAIN q2}

\* Two GET requests with the same path and the same parameters, in any two orders.
KgInit ==
    /\ \E path \in KgPaths, q1 \in Queries, q2 \in Queries :
          /\ SameParams(q1, q2)
          /\ kg = [gen |-> "none", path |-> path, q1 |-> q1, q2 |-> q2,
                   k1 |-> <<>>, k2 |-> <<>>]
    /\ SvcIdle /\ PoolIdle /\ MwIdle

KgMade(gen, k1, k2) ==
    /\ kg.gen = "none"
    /\ kg' = [kg EXCEPT !.gen = gen, !.k1 = k1, !.k2 = k2]
    /\ UNCHANGED <<svcVars, poolVars, mwVars>>

DefaultKeys ==
    KgMade("default", generateCacheKey("GET", kg.path, kg.q1),
           generateCacheKey("GET", kg.path, kg.q2))
BillsKeys ==
    KgMade("bills", billsKey(kg.path, kg.q1), billsKey(kg.path, kg.q2))
AppointmentsKeys ==
    KgMade("appointments", appointmentsKey(kg.path, kg.q1),
           appointmentsKey(kg.path, kg.q2))
TodaysKeys ==
    KgMade("todays", todaysKey(kg.path, kg.q1), todaysKey(kg.path, kg.q2))

KgNext == DefaultKeys \/ BillsKeys \/ AppointmentsKeys \/ TodaysKeys

\* Each key generator applied to both requests of a pair.
SpecKeys == KgInit /\ [][KgNext]_vars

\* The query GET /getAllBill runs for a request: the filters it applies and
\* the page it cuts (page and limit default to 1 and 10).
Filter(query, name) ==
    IF Param(query, name) = "all" /\ name = "status" THEN "" ELSE Param(query, name)
Default(value, d) == IF value = "" THEN d ELSE value
billsQuery(query) ==
    [search |-> Param(query, "search"), status |-> Filter(query, "status"),
     from |-> Param(query, "fromDate"), to |-> Param(query, "toDate"),
     page |-> Default(Param(query, "page"), "1"),
     limit |-> Default(Param(query, "limit"), "10")]

\* The query getAllAppointments runs for a request.
appointmentsQuery(query) ==
    [department |-> IF Param(query, "department") = "all" THEN ""
                    ELSE Param(query, "department"),
     doctor |-> Param(query, "doctorName"), status |-> Filter(query, "status"),
     date |-> Param(query, "appointmentDate"),
     from |-> Param(query, "fromDate"), to |-> Param(query, "toDate"),
     page |-> Default(Param(query, "page"), "1"),
     limit |-> Default(Param(query, "limit"), "10")]

PairParams == KgParams \cup {[name |-> "search", value |-> "x:status:paid"]}
PairQueries ==
    {q \in UNION {[1..n -> PairParams] : n \in 0..MaxParams} : DistinctNames(q)}

\* Two GET requests to one route with any parameters.
PairInit ==
    /\ \E path \in {<<"/">>, <<"/", "getAllBill">>}, q1 \in PairQueries, q2 \in PairQueries :
          kg = [gen |-> "none", path |-> path, q1 |-> q1, q2 |-> q2,
                k1 |-> <<>>, k2 |-> <<>>]
    /\ SvcIdle /\ PoolIdle /\ MwIdle

PairNext == BillsKeys \/ AppointmentsKeys

\* The resource-specific key generators applied to any two requests of a route.
SpecKeyPairs == PairInit /\ [][PairNext]_vars

\* C9: for any two GET requests with the same path and the same query
\* parameters and values presented in different orders, the key generator of
\* the read-through wrapper (the default one and each resource-specific one)
\* produces identical cache keys.
C9_KeyIgnoresParameterOrder == kg.gen # "none" => kg.k1 = kg.k2

-----------------------------------------------------------------------------
(* Requests through the wrappers of the appointment routes *)

Users == {"admin", "staff"}
MutUsers == {"admin"}
AppointmentsNs == "appointments"

GetRoutes == {"list", "listDept", "byId", "today"}
MutRoutes == {"create", "update", "status", "delete"}

\* The appointment the requests are about.
ApptId     == "a1"
ApptPatient == "p1"
ApptDept   == "Cardiology"
ApptDoctor == "drX"

\* req.path and req.query of each GET route, relative to the router's mount.
RoutePath(route) ==
    CASE route = "byId"  -> <<"/", ApptId>>
      [] route = "today" -> <<"/", "today">>
      [] route = "items" -> <<"/", "items">>
      [] OTHER           -> <<"/">>
RouteQuery(route) ==
    IF route = "listDept" THEN <<[name |-> "department", value |-> ApptDept]>> ELSE <<>>

\* The wrapper in front of each GET route: its key generator and its ttl.
RouteKey(route) ==
    IF route = "today" THEN todaysKey(RoutePath(route), RouteQuery(route))
    ELSE appointmentsKey(RoutePath(route), RouteQuery(route))
RouteTtl(route) == IF route = "today" THEN VNum(TodaysTTL) ELSE VNum(AppointmentsTTL)

\* `*<label><value>*`
Around(label, value) == <<"*", label, value, "*">>

\* The invalidateCache calls each mutating handler awaits after its commit, in
\* order; <<>> is the call without a pattern.
HandlerPatternsNoWildcard(route) ==
    << Around("patient:", ApptPatient), Around("department:", ApptDept),
       <<"*", "today", "*">> >>
HandlerPatterns(route) ==
    CASE route = "create" ->
           << <<>>, Around("patient:", ApptPatient), Around("department:", ApptDept),
              Around("doctor:", ApptDoctor), Around("date:", Today), <<"*", "today", "*">>,
              Around("status:", "scheduled") >>
      [] route = "update" ->
           << <<"*", ApptId, "*">>, <<"*", "getAllAppointments", "*">>,
              Around("patient:", ApptPatient), Around("department:", ApptDept),
              Around("doctor:", ApptDoctor), Around("date:", Today), <<"*", "today", "*">>,
              Around("status:", "scheduled") >>
      [] route = "status" ->
           << <<"*", ApptId, "*">>, <<"*", "getAllAppointments", "*">>,
              Around("status:", "scheduled"), Around("status:", "completed"),
              Around("department:", ApptDept), <<"*", "today", "*">> >>
      [] route = "delete" ->
           << <<"*", ApptId, "*">>, <<>>, Around("patient:", ApptPatient),
              Around("department:", ApptDept), Around("doctor:", ApptDoctor),
              Around("date:", Today), <<"*", "today", "*">>,
              Around("status:", "scheduled") >>

\* The body a GET handler sends for a requester when the database is at
\* version ver: the data, and accessedBy of the requester.
HandlerBody(user, ver) == VBody(TRUE, ver, user, VDate(Today))
\* The body of a failed request (4xx, 5xx): success false.
FailureBody == VBody(FALSE, 0, "", VNull)

\* A request and what happened to it. method, skip (what options.skipCache
\* answers for it), ttl and list (the patterns list) are those of the request
\* and of the wrapper mounted on its route; the rest is filled in as it goes:
\* looked (the wrapper read the cache), wrote (the entry the interceptor's
\* cacheData left), sent (times a body went out), threw (the interceptor
\* raised into the handler), tasks (the interceptor's unawaited invalidateCache
\* calls), overlapped (another request was in flight with it).
NoReq ==
    [kind |-> "none", route |-> "", user |-> "", pc |-> "done", wrapped |-> FALSE,
     key |-> <<>>, hit |-> VUndef, data |-> VUndef, resp |-> VUndef, expected |-> VUndef,
     status |-> 0, served |-> "", handlerCalls |-> 0, seenAck |-> 0, ver |-> 0,
     pats |-> <<>>, pubs |-> <<>>,
     method |-> "GET", skip |-> FALSE, ttl |-> VUndef, list |-> <<>>,
     looked |-> FALSE, wrote |-> VUndef, sent |-> 0, threw |-> FALSE,
     tasks |-> <<>>, overlapped |-> FALSE]

\* httpCacheService.initialize(): the pool hands out a connection, or raises
\* when the backend is unreachable.
InitializeOk == backend = "up"
Initialized == IF InitializeOk THEN "ready" ELSE held

\* The message invalidateCache publishes for a pattern.
InvalidationMessage(ns, pattern) ==
    [channel |-> InvalidateChannel,
     message |-> JsonStringify(Envelope(VInvalidation(ns, pattern)))]

MwFrame == UNCHANGED <<now, backend, published, last, lastSet, nops, subs, poolVars, kg>>

\* The requests still awaiting their response.
InFlight == {i \in DOMAIN reqs : reqs[i].resp = VUndef /\ reqs[i].pc # "error"}

\* A client sends a request; the run makes at most maxReqs requests, at most
\* maxInFlight of them awaiting their response at once.
Start(req, maxReqs, maxInFlight) ==
    /\ nreqs < maxReqs
    /\ Cardinality(InFlight) < maxInFlight
    /\ nreqs' = nreqs + 1
    /\ reqs' = Append([i \in DOMAIN reqs |->
                          IF i \in InFlight THEN [reqs[i] EXCEPT !.overlapped = TRUE]
                          ELSE reqs[i]],
                      [req EXCEPT !.pc = "mw", !.seenAck = acked,
                                  !.overlapped = InFlight # {}])
    /\ UNCHANGED <<db, acked, store, held>>
    /\ MwFrame

\* The verb each route is mounted with.
RouteMethod(route) ==
    CASE route = "create" -> "POST"
      [] route = "update" -> "PUT"
      [] route = "status" -> "PATCH"
      [] route = "delete" -> "DELETE"
      [] OTHER            -> "GET"

\* A request to an appointment route: the GET routes are behind a read-through
\* wrapper without skipCache, the mutating routes behind the invalidation
\* wrapper without a patterns list.
Issue(kind, route, user, maxReqs, maxInFlight) ==
    Start([NoReq EXCEPT !.kind = kind, !.route = route, !.user = user,
                        !.method = RouteMethod(route),
                        !.ttl = IF kind = "GET" THEN RouteTtl(route) ELSE VUndef],
          maxReqs, maxInFlight)

\* `data.success`: the field of a body, undefined on an object without it; on
\* null and undefined the access raises a TypeError.
SuccessOf(data) == IF data.t = "body" THEN VBool(data.success) ELSE VUndef
AccessRaises(data) == data.t \in {"null", "undefined"}

\* `res.statusCode >= 200 && res.statusCode < 300 && data.success`
AnyResponse(r) == TRUE
SuccessfulResponse(r) == r.status >= 200 /\ r.status < 300 /\ Truthy(SuccessOf(r.data))
\* ... which raises when it comes to evaluate data.success of null.
InterceptorRaises(r) == r.status >= 200 /\ r.status < 300 /\ AccessRaises(r.data)

\* `ttl: number = 300` of cacheData
CacheDataTtlIgnored(opt) == VNum(CacheDataTTL)
CacheDataTtl(opt) == IF opt = VUndef THEN VNum(CacheDataTTL) ELSE opt

\* `req.method !== "GET"`, `options.skipCache && options.skipCache(req)`
BypassNever(r) == FALSE
Bypass(r) == r.method # "GET" \/ r.skip

\* The key generator of the wrapper in front of a route; the generic route has
\* none, so the default one is used.
WrapperKey(r) ==
    IF r.route = "items" THEN generateCacheKey(r.method, RoutePath(r.route), RouteQuery(r.route))
    ELSE RouteKey(r.route)

\* Where a request goes after the hit branch (`return res.json(cachedData)`)
\* and after the catch blocks of the two wrappers (`next()`).
AfterHitFallsThrough == "handler"
AfterHit == "done"
CacheMwCatchFails == "error"
CacheMwCatch == "handler"
InvalidationMwCatch == "handler"

\* cacheMiddleware: a request that is not a GET, or that skipCache picks, goes
\* straight on to the handler; otherwise initialize, make the key, look it up;
\* a hit is answered from the cache, a miss wraps res.json and goes on to the
\* handler.
CacheMiddleware(s, cmdFail) ==
    LET r   == reqs[s]
        key == WrapperKey(r)
        ck  == generateKey(key, AppointmentsNs)
        cachedData == GetReturn(ck, ~cmdFail).ret
    IN /\ r.kind = "GET" /\ r.pc = "mw"
       /\ held' = IF Bypass(r) THEN held ELSE Initialized
       /\ reqs' = [reqs EXCEPT ![s] =
            IF Bypass(r) THEN [r EXCEPT !.pc = "handler"]
            ELSE IF ~InitializeOk THEN [r EXCEPT !.pc = CacheMwCatch]
            ELSE IF Truthy(cachedData)
            THEN [r EXCEPT !.key = key, !.looked = TRUE,
                           !.hit = RedisGet(store, now, ck),
                           !.resp = JsonStringify(cachedData),
                           !.expected = JsonStringify(HandlerBody(r.user, db)),
                           !.sent = r.sent + 1,
                           !.served = "cache", !.pc = AfterHit]
            ELSE [r EXCEPT !.key = key, !.looked = TRUE, !.wrapped = TRUE,
                           !.pc = "handler"]]
       /\ UNCHANGED <<db, nreqs, acked, store>>
       /\ MwFrame

\* A GET handler queries the database and builds its body; ok: the query worked.
GetHandler(s, ok) ==
    LET r == reqs[s]
    IN /\ r.kind = "GET" /\ r.pc = "handler"
       /\ reqs' = [reqs EXCEPT ![s] =
            [r EXCEPT !.handlerCalls = r.handlerCalls + 1,
                      !.data = IF ok THEN HandlerBody(r.user, db) ELSE FailureBody,
                      !.status = IF ok THEN 200 ELSE 500,
                      !.ver = db,
                      !.pc = "respond"]]
       /\ UNCHANGED <<db, nreqs, acked, store, held>>
       /\ MwFrame

\* The GET handler calls res.json(data): the interceptor of a miss starts
\* cacheData for a successful response (not awaited; its SETEX is the next
\* command on the connection), then the body is sent.
\* When the interceptor raises, the exception surfaces in the handler at its
\* res.json call; the handlers of this repository catch it and send their
\* error body with status 500, which the interceptor lets through.
GetRespond(s, cmdFail) ==
    LET r  == reqs[s]
        ck == generateKey(r.key, AppointmentsNs)
        raised == r.wrapped /\ InterceptorRaises(r)
        called == r.wrapped /\ ~raised /\ SuccessfulResponse(r)
        cached == called /\ InitializeOk /\ ~cmdFail
        after  == RedisSetex(store, now, ck, SetTtl(CacheDataTtl(r.ttl)),
                             JsonStringify(r.data))
    IN /\ r.kind = "GET" /\ r.pc = "respond"
       /\ store' = IF cached THEN after ELSE store
       /\ reqs' = [reqs EXCEPT ![s] =
            [r EXCEPT !.resp = JsonStringify(IF raised THEN FailureBody ELSE r.data),
                      !.expected = JsonStringify(r.data),
                      !.threw = raised,
                      !.sent = r.sent + 1,
                      !.wrote = IF cached THEN [t |-> "entry", key |-> ck, val |-> after[ck].val,
                                                ttl |-> after[ck].exp - now]
                                ELSE IF called THEN [t |-> "failed"]
                                ELSE VUndef,
                      !.served = IF cached THEN "handler-cached" ELSE "handler-uncached",
                      !.pc = "done"]]
       /\ UNCHANGED <<db, nreqs, acked, held>>
       /\ MwFrame

\* cacheInvalidationMiddleware on a mutating route: initialize, wrap res.json,
\* go on to the handler; when initialize raises, go on without wrapping.
InvalidationMiddleware(s) ==
    LET r == reqs[s]
    IN /\ r.kind = "MUT" /\ r.pc = "mw"
       /\ held' = Initialized
       /\ reqs' = [reqs EXCEPT ![s] =
            IF InitializeOk THEN [r EXCEPT !.wrapped = TRUE, !.pc = "handler"]
            ELSE [r EXCEPT !.pc = InvalidationMwCatch]]
       /\ UNCHANGED <<db, nreqs, acked, store>>
       /\ MwFrame

\* A mutating handler validates and commits; ok: the mutation went through.
\* After the commit it awaits its invalidateCache calls one by one.
MutHandler(s, ok) ==
    LET r == reqs[s]
    IN /\ r.kind = "MUT" /\ r.pc = "handler"
       /\ db' = IF ok THEN db + 1 ELSE db
       /\ reqs' = [reqs EXCEPT ![s] =
            IF ok
            THEN [r EXCEPT !.handlerCalls = r.handlerCalls + 1,
                           !.data = HandlerBody(r.user, db + 1),
                           !.status = IF r.route = "create" THEN 201 ELSE 200,
                           !.ver = db + 1,
                           !.pats = HandlerPatterns(r.route),
                           !.pc = "invalidate"]
            ELSE [r EXCEPT !.handlerCalls = r.handlerCalls + 1,
                           !.data = FailureBody,
                           !.status = 400,
                           !.pc = "respond"]]
       /\ UNCHANGED <<nreqs, acked, store, held>>
       /\ MwFrame

\* One awaited invalidateCache(namespace, pattern?) of the handler: the keys
\* the pattern matches are deleted and the message is published; with the
\* backend unreachable both fail silently.
HandlerInvalidate(s) ==
    LET r == reqs[s]
        deletePattern == InvalidatePattern(Head(r.pats))
        keys == RedisKeys(store, now, generateKey(deletePattern, AppointmentsNs))
        rest == Tail(r.pats)
    IN /\ r.kind = "MUT" /\ r.pc = "invalidate" /\ r.pats # <<>>
       /\ held' = Initialized
       /\ store' = IF InitializeOk THEN RedisDel(store, keys) ELSE store
       /\ reqs' = [reqs EXCEPT ![s] =
            [r EXCEPT !.pats = rest,
                      !.pubs = IF InitializeOk
                               THEN Append(r.pubs,
                                           InvalidationMessage(AppointmentsNs, deletePattern))
                               ELSE r.pubs,
                      !.pc = IF rest = <<>> THEN "respond" ELSE "invalidate"]]
       /\ UNCHANGED <<db, nreqs, acked>>
       /\ MwFrame

\* The mutating handler calls res.json(data): the interceptor starts
\* invalidateCache(namespace) for a successful response without awaiting it (its
\* KEYS is the next command on the connection), then the body is sent.
\* `patterns && patterns.length > 0 ? patterns.forEach(...) : invalidateCache(namespace)`:
\* the pattern arguments of the interceptor's invalidateCache calls.
WrapperPatternsNamespaceOnly(list) == << <<>> >>
WrapperPatterns(list) == IF list # <<>> THEN list ELSE << <<>> >>

\* The calls go out together, none awaited: their KEYS commands are the next
\* commands on the connection, one after the other.
StartedTasks(list) ==
    [k \in DOMAIN WrapperPatterns(list) |->
        [pattern |-> InvalidatePattern(WrapperPatterns(list)[k]),
         keys |-> IF InitializeOk
                  THEN RedisKeys(store, now,
                                 generateKey(InvalidatePattern(WrapperPatterns(list)[k]),
                                             AppointmentsNs))
                  ELSE {},
         pc |-> "deleting"]]

MutRespond(s) ==
    LET r == reqs[s]
        raised  == r.wrapped /\ InterceptorRaises(r)
        started == r.wrapped /\ ~raised /\ SuccessfulResponse(r)
    IN /\ r.kind = "MUT" /\ r.pc = "respond"
       /\ acked' = IF ~raised /\ SuccessfulResponse(r) /\ r.ver > acked THEN r.ver ELSE acked
       /\ reqs' = [reqs EXCEPT ![s] =
            [r EXCEPT !.resp = JsonStringify(IF raised THEN FailureBody ELSE r.data),
                      !.expected = JsonStringify(r.data),
                      !.threw = raised,
                      !.sent = r.sent + 1,
                      !.served = "handler-uncached",
                      !.tasks = IF started THEN StartedTasks(r.list) ELSE <<>>,
                      !.pc = IF started THEN "background" ELSE "done"]]
       /\ UNCHANGED <<db, nreqs, store, held>>
       /\ MwFrame

\* One of the interceptor's invalidateCache calls goes on after the response:
\* DEL of the keys its KEYS found, if any.
WrapperDelete(s, k) ==
    LET r == reqs[s]
    IN /\ r.kind = "MUT" /\ r.pc = "background"
       /\ k \in DOMAIN r.tasks /\ r.tasks[k].pc = "deleting"
       /\ store' = IF InitializeOk THEN RedisDel(store, r.tasks[k].keys) ELSE store
       /\ reqs' = [reqs EXCEPT ![s] =
            [r EXCEPT !.tasks[k].keys = {}, !.tasks[k].pc = "publishing"]]
       /\ UNCHANGED <<db, nreqs, acked, held>>
       /\ MwFrame

\* ... and then publishInvalidation; the request has nothing left to do once
\* every call has published.
WrapperPublish(s, k) ==
    LET r == reqs[s]
        tasks == [r.tasks EXCEPT ![k].pc = "done"]
    IN /\ r.kind = "MUT" /\ r.pc = "background"
       /\ k \in DOMAIN r.tasks /\ r.tasks[k].pc = "publishing"
       /\ reqs' = [reqs EXCEPT ![s] =
            [r EXCEPT !.pubs = IF InitializeOk
                               THEN Append(r.pubs,
                                           InvalidationMessage(AppointmentsNs,
                                                               r.tasks[k].pattern))
                               ELSE r.pubs,
                      !.tasks = tasks,
                      !.pc = IF \A j \in DOMAIN tasks : tasks[j].pc = "done"
                             THEN "done" ELSE "background"]]
       /\ UNCHANGED <<db, nreqs, acked, store, held>>
       /\ MwFrame

\* The server starts with an empty cache; the backend is reachable for the
\* whole run or unreachable for the whole run.
MwInit ==
    /\ store = NoStore /\ now = 0 /\ backend \in {"up", "down"} /\ held = "none"
    /\ published = <<>> /\ last = NoCall /\ lastSet = NoStore /\ nops = 0 /\ subs = {}
    /\ db = 0 /\ reqs = <<>> /\ nreqs = 0 /\ acked = 0
    /\ PoolIdle /\ KgIdle

MwStep(maxReqs, maxInFlight) ==
    \/ \E route \in GetRoutes, user \in Users :
          Issue("GET", route, user, maxReqs, maxInFlight)
    \/ \E route \in MutRoutes, user \in MutUsers :
          Issue("MUT", route, user, maxReqs, maxInFlight)
    \/ \E s \in DOMAIN reqs, f \in BOOLEAN : CacheMiddleware(s, f)
    \/ \E s \in DOMAIN reqs, ok \in BOOLEAN : GetHandler(s, ok)
    \/ \E s \in DOMAIN reqs, f \in BOOLEAN : GetRespond(s, f)
    \/ \E s \in DOMAIN reqs : InvalidationMiddleware(s)
    \/ \E s \in DOMAIN reqs, ok \in BOOLEAN : MutHandler(s, ok)
    \/ \E s \in DOMAIN reqs : HandlerInvalidate(s)
    \/ \E s \in DOMAIN reqs : MutRespond(s)
    \/ \E s \in DOMAIN reqs, k \in 1..MaxPatterns : WrapperDelete(s, k)
    \/ \E s \in DOMAIN reqs, k \in 1..MaxPatterns : WrapperPublish(s, k)

MwNext == MwStep(MaxReqs, MaxInFlight)

\* GET and mutating requests of two users through the appointment routes, one
\* after the other, the wrapper's unawaited work overlapping the next request.
SpecMw == MwInit /\ [][MwNext]_vars

ConcNext == MwStep(MaxConcReqs, MaxConcReqs)

\* Fewer requests, all of them in flight at once.
SpecMwConc == MwInit /\ [][ConcNext]_vars

-----------------------------------------------------------------------------
(* The two wrappers with any options, in front of any handler *)

\* A route "items" behind cacheMiddleware({namespace, ttl, skipCache}) for every
\* verb, and a route "itemsMut" behind cacheInvalidationMiddleware(namespace,
\* patterns).
WrapMethods == {"GET", "POST"}
WrapTtls    == {VUndef, VNum(TodaysTTL)}
\* The k-th pattern of a list: the first one matches the key of "items".
ListPattern(k) == <<"/", "items">> \o [i \in 1..(k - 1) |-> "?"]
WrapLists == {[k \in 1..n |-> ListPattern(k)] : n \in 0..MaxPatterns}

\* What a handler may pass to res.json, and under which status.
WrapBodies(user, ver) == {HandlerBody(user, ver), FailureBody, VNull, VEmptyObj}
WrapOutcomes(user, ver) ==
    {[status |-> 200, body |-> b] : b \in WrapBodies(user, ver)}
    \cup {[status |-> 404, body |-> FailureBody], [status |-> 500, body |-> VNull],
          [status |-> 302, body |-> HandlerBody(user, ver)]}

IssueRead(method, skip, ttl) ==
    Start([NoReq EXCEPT !.kind = "GET", !.route = "items", !.user = "admin",
                        !.method = method, !.skip = skip, !.ttl = ttl],
          MaxWrapReqs, MaxInFlight)

IssueWrite(list) ==
    Start([NoReq EXCEPT !.kind = "MUT", !.route = "itemsMut", !.user = "admin",
                        !.method = "POST", !.list = list],
          MaxWrapReqs, MaxInFlight)

\* The handler behind the wrapper: a mutating one commits first when commit
\* holds; then it sets the status and calls res.json(body).
WrapHandler(s, commit, out) ==
    LET r == reqs[s]
        ver == IF r.kind = "MUT" /\ commit THEN db + 1 ELSE db
    IN /\ r.route \in {"items", "itemsMut"} /\ r.pc = "handler"
       /\ out \in WrapOutcomes(r.user, ver)
       /\ db' = ver
       /\ reqs' = [reqs EXCEPT ![s] =
            [r EXCEPT !.handlerCalls = r.handlerCalls + 1,
                      !.data = out.body, !.status = out.status,
                      !.ver = IF r.kind = "MUT" /\ ~commit THEN 0 ELSE ver,
                      !.pc = "respond"]]
       /\ UNCHANGED <<nreqs, acked, store, held>>
       /\ MwFrame

WrapNext ==
    \/ \E method \in WrapMethods, skip \in BOOLEAN, ttl \in WrapTtls :
          IssueRead(method, skip, ttl)
    \/ \E list \in WrapLists : IssueWrite(list)
    \/ \E s \in DOMAIN reqs, f \in BOOLEAN : CacheMiddleware(s, f)
    \/ \E s \in DOMAIN reqs : InvalidationMiddleware(s)
    \/ \E s \in DOMAIN reqs, commit \in BOOLEAN :
          \E out \in WrapOutcomes(reqs[s].user, db) \cup WrapOutcomes(reqs[s].user, db + 1) :
             WrapHandler(s, commit, out)
    \/ \E s \in DOMAIN reqs, f \in BOOLEAN : GetRespond(s, f)
    \/ \E s \in DOMAIN reqs : MutRespond(s)
    \/ \E s \in DOMAIN reqs, k \in 1..MaxPatterns : WrapperDelete(s, k)
    \/ \E s \in DOMAIN reqs, k \in 1..MaxPatterns : WrapperPublish(s, k)

\* Requests through the two wrappers with any options and any handler outcome,
\* one after the other.
SpecWrap == MwInit /\ [][WrapNext]_vars

\* Every step that can be taken is taken in the end: the event loop runs each
\* continuation that is ready, and the handlers answer.
SpecWrapFair == SpecWrap /\ WF_vars(WrapNext)

-----------------------------------------------------------------------------
(* The administrative flush endpoint *)

\* What the endpoint answers after flushAll: the success body, or the error
\* body with status 500 from its catch block when flushAll raised.
FlushedBody == VBody(TRUE, 0, "", VNull)
FlushResponse(outcome) ==
    IF outcome.raised THEN [status |-> 500, body |-> FailureBody]
    ELSE [status |-> 200, body |-> FlushedBody]

\* DELETE /api/cache/flush: await httpCacheService.flushAll(), then answer.
AdminFlush(cmdFail) ==
    LET outcome == IF CmdOk(cmdFail) THEN Returned("flushAll", <<>>, VUndef, FALSE)
                   ELSE FlushCatch
        answer  == FlushResponse(outcome)
    IN /\ FlushAll(cmdFail)
       /\ reqs' = Append(reqs, [NoReq EXCEPT !.kind = "ADMIN", !.route = "flush",
                                              !.method = "DELETE", !.handlerCalls = 1,
                                              !.status = answer.status,
                                              !.data = answer.body,
                                              !.resp = JsonStringify(answer.body),
                                              !.expected = JsonStringify(answer.body),
                                              !.sent = 1])
       /\ nreqs' = nreqs + 1
       /\ UNCHANGED <<db, acked, poolVars, kg>>

AdminNext ==
    \/ \E k \in SvcKeys, v \in SvcValues, ns \in SvcNamespaces, f \in BOOLEAN :
          Set(k, v, VUndef, ns, f) /\ SvcOther
    \/ \E c \in SvcChannels, f \in BOOLEAN : Subscribe(c, f) /\ SvcOther
    \/ \E f \in BOOLEAN : AdminFlush(f)
    \/ BackendDown /\ SvcOther
    \/ BackendUp /\ SvcOther

\* Entries are written and the flush endpoint is called, under a backend that
\* comes and goes.
SpecAdmin == SvcInit /\ [][AdminNext]_vars

-----------------------------------------------------------------------------
(* Claims about the wrappers *)

Responded(r) == r.resp # VUndef

\* C1: the body each GET receives through the read-through wrapper is the body
\* the handler would have sent for the same request (same requester, same
\* database state) without the wrapper.
C1_SameBodyAsHandler ==
    \A i \in DOMAIN reqs :
        (reqs[i].kind = "GET" /\ Responded(reqs[i])) => reqs[i].resp = reqs[i].expected

\* C2: once the client has received the successful response of a mutation, a
\* GET issued afterwards for a view of the appointment is not answered with a
\* payload cached before that mutation.
C2_NoStaleReadAfterAck ==
    \A i \in DOMAIN reqs :
        (reqs[i].kind = "GET" /\ Responded(reqs[i]) /\ reqs[i].served = "cache")
        => JsonParse(reqs[i].resp).ver >= reqs[i].seenAck

\* C3: with the backend unreachable for the whole run, no request ends in an
\* error of the cache, and every request that was answered reached its handler
\* exactly once and was answered with the handler's body.
C3_DegradesToHandler ==
    backend = "down" =>
        \A i \in DOMAIN reqs :
            /\ reqs[i].pc # "error"
            /\ reqs[i].handlerCalls <= 1
            /\ reqs[i].pc = "done" => Responded(reqs[i])
            /\ Responded(reqs[i]) =>
                  /\ reqs[i].handlerCalls = 1
                  /\ reqs[i].resp = JsonStringify(reqs[i].data)

\* C3 witness: with the backend unreachable a GET and a mutation have both
\* been answered by their handlers with success.
C3_Witness ==
    /\ backend = "down"
    /\ \E i, j \in DOMAIN reqs :
          /\ reqs[i].kind = "GET" /\ reqs[i].pc = "done" /\ reqs[i].handlerCalls = 1
          /\ reqs[i].resp = JsonStringify(HandlerBody(reqs[i].user, reqs[i].ver))
          /\ reqs[j].kind = "MUT" /\ reqs[j].pc = "done" /\ reqs[j].handlerCalls = 1
          /\ reqs[j].status = 200

Is2xx(r) == r.status \in 200..299
SuccessTrue(r) == r.data.t = "body" /\ r.data.success = TRUE
\* The ttl the wrapper of a request was configured with (cacheData's default
\* when the options name none).
ConfiguredTtl(r) == IF r.ttl = VUndef THEN CacheDataTTL ELSE r.ttl.n
\* The entry this request's interceptor wrote is the handler's payload under
\* the request's key with the wrapper's ttl.
WroteHandlerPayload(r) ==
    /\ r.wrote.key = generateKey(r.key, AppointmentsNs)
    /\ r.wrote.val = JsonStringify(r.data)
    /\ r.wrote.ttl = ConfiguredTtl(r)

\* C11 as stated: on a miss the interceptor has stored the handler's payload
\* under the computed key with the configured ttl if and only if the response
\* is 2xx with success true.
C11_StoredIffSuccessful ==
    \A i \in DOMAIN reqs :
        (reqs[i].kind = "GET" /\ reqs[i].wrapped /\ Responded(reqs[i])) =>
            /\ (reqs[i].wrote.t = "entry") <=> (Is2xx(reqs[i]) /\ SuccessTrue(reqs[i]))
            /\ reqs[i].wrote.t = "entry" => WroteHandlerPayload(reqs[i])

\* C11 amended: on a miss the interceptor issues the store of the handler's
\* payload if and only if the response is 2xx with success true; what it
\* stores, when the backend executes the write, is the payload under the
\* computed key with the configured ttl; a response that is not 2xx or has
\* success false is never written.
C11_StoreIssuedIffSuccessful ==
    \A i \in DOMAIN reqs :
        (reqs[i].kind = "GET" /\ reqs[i].wrapped /\ Responded(reqs[i])) =>
            /\ (reqs[i].wrote # VUndef) <=> (Is2xx(reqs[i]) /\ SuccessTrue(reqs[i]))
            /\ reqs[i].wrote.t = "entry" => WroteHandlerPayload(reqs[i])
            /\ ~(Is2xx(reqs[i]) /\ SuccessTrue(reqs[i])) =>
                  /\ reqs[i].wrote = VUndef
                  /\ reqs[i].served = "handler-uncached"

\* C11 witness: after a miss whose 2xx response had success false and was not
\* stored, a miss with a successful response was stored with the wrapper's ttl
\* of 120 seconds.
C11_Witness ==
    \E i, j \in DOMAIN reqs :
        /\ i < j
        /\ reqs[i].wrapped /\ reqs[i].status = 200 /\ reqs[i].data = FailureBody
        /\ reqs[i].wrote = VUndef /\ Responded(reqs[i])
        /\ reqs[j].wrapped /\ reqs[j].wrote.t = "entry" /\ reqs[j].wrote.ttl = TodaysTTL
        /\ RedisGet(store, now, reqs[j].wrote.key) = JsonStringify(reqs[j].data)

\* The request is not a GET, or skipCache(request) is true.
NotForCache(r) == r.kind = "GET" /\ (r.method # "GET" \/ r.skip)

\* C12: a request that is not a GET, or that skipCache picks, goes through the
\* read-through wrapper to the handler with no cache read and no cache write:
\* none of its steps changes the cache contents, no interceptor is installed,
\* and the client receives the handler's body as the handler passed it.
C12_BypassLeavesCacheAlone ==
    [][\A i \in DOMAIN reqs :
          (NotForCache(reqs[i]) /\ reqs'[i] # reqs[i]) =>
              /\ store' = store
              /\ ~reqs'[i].looked /\ ~reqs'[i].wrapped
              /\ reqs'[i].hit = VUndef /\ reqs'[i].wrote = VUndef
              /\ Responded(reqs'[i]) =>
                    /\ reqs'[i].handlerCalls = 1
                    /\ reqs'[i].resp = JsonStringify(reqs'[i].data)
                    /\ reqs'[i].served = "handler-uncached"]_vars

\* C12 witness: a POST was answered by its handler while the cache held an
\* entry under the key a GET of the same path is cached with.
C12_Witness ==
    \E i, j \in DOMAIN reqs :
        /\ i < j
        /\ reqs[i].wrote.t = "entry"
        /\ RedisGet(store, now, reqs[i].wrote.key) = reqs[i].wrote.val
        /\ reqs[j].method = "POST" /\ NotForCache(reqs[j]) /\ Responded(reqs[j])
        /\ reqs[j].handlerCalls = 1
        /\ generateKey(WrapperKey(reqs[j]), AppointmentsNs) = reqs[i].wrote.key

\* The patterns of the invalidateCache calls the interceptor of a request made.
TaskPatterns(r) == [k \in DOMAIN r.tasks |-> r.tasks[k].pattern]
\* The patterns the messages of a sequence carry, from position from on.
PublishedPatterns(pubs, from) ==
    {JsonParse(pubs[k].message).data.pattern : k \in {n \in DOMAIN pubs : n >= from}}

\* C13: the interceptor of the invalidation wrapper starts invalidateCache
\* calls only for a 2xx response with success true: one per pattern of the
\* wrapper's list, or one for * when there is no list, each of which publishes
\* its pattern once it has deleted; for any other response it starts none, so
\* nothing is deleted and nothing is published.
C13_InvalidatesOnSuccessOnly ==
    \A i \in DOMAIN reqs :
        (reqs[i].kind = "MUT" /\ reqs[i].wrapped /\ Responded(reqs[i])) =>
            IF Is2xx(reqs[i]) /\ SuccessTrue(reqs[i])
            THEN /\ TaskPatterns(reqs[i]) =
                       IF reqs[i].list # <<>> THEN reqs[i].list ELSE << <<"*">> >>
                 /\ (reqs[i].pc = "done" /\ backend = "up") =>
                       /\ Len(reqs[i].pubs) >= Len(reqs[i].tasks)
                       /\ PublishedPatterns(reqs[i].pubs,
                                            Len(reqs[i].pubs) - Len(reqs[i].tasks) + 1)
                            = {reqs[i].tasks[k].pattern : k \in DOMAIN reqs[i].tasks}
            ELSE reqs[i].tasks = <<>> /\ reqs[i].pubs = <<>> /\ reqs[i].pc = "done"

\* C13 witness: the successful response of a mutation behind a wrapper with a
\* list of two patterns has removed the entry a GET had left and published
\* both patterns.
C13_Witness ==
    \E i, j \in DOMAIN reqs :
        /\ i < j /\ backend = "up"
        /\ reqs[i].wrote.t = "entry"
        /\ reqs[j].kind = "MUT" /\ Len(reqs[j].list) = 2 /\ reqs[j].pc = "done"
        /\ Len(reqs[j].tasks) = 2 /\ Len(reqs[j].pubs) = 2
        /\ RedisGet(store, now, reqs[i].wrote.key) = RNil

\* C14: a step in which the interceptor of a mutating request starts or
\* advances one of its invalidateCache calls is taken only after the handler
\* of that request has run, committed its mutation to the database, finished
\* its own awaited invalidations and passed its successful 2xx body to
\* res.json; none is taken before the commit.
C14_WrapperDeletesAfterCommit ==
    [][\A i \in DOMAIN reqs :
          (reqs[i].kind = "MUT" /\ reqs'[i].tasks # reqs[i].tasks) =>
              /\ reqs[i].handlerCalls = 1
              /\ reqs[i].ver \in 1..db
              /\ reqs[i].pats = <<>>
              /\ Is2xx(reqs[i]) /\ SuccessTrue(reqs[i])
              /\ reqs[i].data = HandlerBody(reqs[i].user, reqs[i].ver)]_vars

\* C14 witness: the interceptor of an update has deleted the list entry a GET
\* had left, after the update was committed as the latest database version.
C14_Witness ==
    \E i, j \in DOMAIN reqs :
        /\ reqs[j].route = "list" /\ reqs[j].wrote.t = "entry"
        /\ RedisGet(store, now, reqs[j].wrote.key) = RNil
        /\ reqs[i].route = "update" /\ reqs[i].ver = db /\ db >= 1
        /\ reqs[i].tasks # <<>> /\ reqs[i].tasks[1].pc # "deleting"

\* The three ways a request through the read-through wrapper ends.
RespondedFromCache(r) == r.hit # VUndef /\ r.handlerCalls = 0 /\ r.resp = r.hit
RespondedFromHandlerAndCached(r) ==
    r.hit = VUndef /\ r.handlerCalls = 1 /\ r.wrote # VUndef /\ r.wrote.t = "entry"
RespondedFromHandlerUncached(r) ==
    r.hit = VUndef /\ r.handlerCalls = 1 /\ (r.wrote = VUndef \/ r.wrote.t = "failed")
Terminal(r) == r.pc = "done" /\ Responded(r)
\* The n-th request of the run has entered the read-through wrapper; has ended.
EnteredAt(n)  == n \in DOMAIN reqs /\ reqs[n].kind = "GET"
TerminalAt(n) == n \in DOMAIN reqs /\ Terminal(reqs[n])

\* C15: every request that enters the read-through wrapper ends, and ends in
\* exactly one of responded-from-cache, responded-from-handler-and-cached and
\* responded-from-handler-uncached, after exactly one body was sent; no request
\* ever has two bodies sent; a request that is not a GET or that skipCache
\* picks ends in responded-from-handler-uncached.
C15_OneTerminalStateOneResponse ==
    /\ [](\A i \in DOMAIN reqs :
            reqs[i].kind = "GET" =>
                /\ reqs[i].sent <= 1
                /\ Terminal(reqs[i]) =>
                      /\ reqs[i].sent = 1
                      /\ Cardinality({c \in {"cache", "cached", "uncached"} :
                             \/ c = "cache" /\ RespondedFromCache(reqs[i])
                             \/ c = "cached" /\ RespondedFromHandlerAndCached(reqs[i])
                             \/ c = "uncached" /\ RespondedFromHandlerUncached(reqs[i])}) = 1
                      /\ NotForCache(reqs[i]) => RespondedFromHandlerUncached(reqs[i]))
    /\ \A n \in 1..MaxWrapReqs :
          [](EnteredAt(n) => <>TerminalAt(n))

\* C15 witness: one GET ended responded-from-handler-and-cached and the next
\* one, for the same key, responded-from-cache, each after one body.
C15_Witness ==
    \E i, j \in DOMAIN reqs :
        /\ i < j
        /\ Terminal(reqs[i]) /\ RespondedFromHandlerAndCached(reqs[i]) /\ reqs[i].sent = 1
        /\ Terminal(reqs[j]) /\ RespondedFromCache(reqs[j]) /\ reqs[j].sent = 1
        /\ reqs[j].key = reqs[i].key

\* The patterns createAppointment is stated to invalidate.
CreationPatterns ==
    {Around("patient:", ApptPatient), Around("department:", ApptDept),
     <<"*", "today", "*">>, <<"*">>}

-----------------------------------------------------------------------------
(* Claims about invalidation messages *)

\* C17: a call invalidateCache(namespace, pattern?) made with the backend
\* reachable, none of its commands failing at the backend, appends exactly one
\* message to the invalidation channel, carrying the namespace, the pattern
\* used (* when omitted) and the name of the service, whether or not any key
\* matched.
C17_EveryInvalidationPublishes ==
    [][\A ns \in SvcNamespaces, p \in SvcPatterns :
          (backend = "up" /\ InvalidateCache(ns, p, FALSE, FALSE, FALSE)) =>
              /\ Len(published') = Len(published) + 1
              /\ SubSeq(published', 1, Len(published)) = published
              /\ published'[Len(published')].channel = InvalidateChannel
              /\ LET m == JsonParse(published'[Len(published')].message)
                 IN /\ m.service = ServiceName
                    /\ m.data.namespace = ns
                    /\ m.data.pattern = (IF p = <<>> THEN <<"*">> ELSE p)
                    /\ m.data.service = ServiceName]_vars

\* The positions of the messages of a request that carry a pattern.
PublishedAt(r, pattern) ==
    {k \in DOMAIN r.pubs : JsonParse(r.pubs[k].message).data.pattern = pattern}

\* C18: once a successful mutating request has finished all its invalidations
\* (backend reachable), it has published exactly one message for the base
\* collection (pattern *), and no (namespace, pattern) twice.
C18_OneMessagePerView ==
    \A i \in DOMAIN reqs :
        (/\ reqs[i].kind = "MUT" /\ reqs[i].pc = "done" /\ backend = "up"
         /\ Is2xx(reqs[i]) /\ SuccessTrue(reqs[i])) =>
            /\ Cardinality(PublishedAt(reqs[i], <<"*">>)) = 1
            /\ \A a, b \in DOMAIN reqs[i].pubs :
                  a # b => reqs[i].pubs[a].message # reqs[i].pubs[b].message

-----------------------------------------------------------------------------
(* Claims about failures *)

\* C19: whatever body the handler passes to res.json (null and bodies without
\* a success field included) and whatever the state of the backend, the
\* interceptor installed by either wrapper raises nothing into the handler,
\* and the client receives that body unchanged.
C19_InterceptorsNeverRaise ==
    \A i \in DOMAIN reqs :
        reqs[i].wrapped =>
            /\ ~reqs[i].threw
            /\ Responded(reqs[i]) => reqs[i].resp = JsonStringify(reqs[i].data)

\* C20: when flushAll fails at the backend during a call of the flush
\* endpoint (backend unreachable, or the command failing), the endpoint
\* answers with an error: a status of 400 or more and success false.
C20_FlushFailureIsReported ==
    [][\A f \in BOOLEAN :
          (AdminFlush(f) /\ last'.op = "flushAll" /\ last'.failed) =>
              /\ reqs'[Len(reqs')].status >= 400
              /\ ~SuccessTrue(reqs'[Len(reqs')])]_vars

-----------------------------------------------------------------------------
(* Claims about closing and inspecting the pool *)

OthersIdle(c) == \A d \in Callers \ {c} : calls[d].op = "idle"

C23_FailedGetConnectionLeavesNothing ==
    \A c \in Callers :
        (calls[c].op = "getConnection" /\ calls[c].pc = "done"
            /\ calls[c].result = 0 - 1)
        => /\ connections[calls[c].svc] # calls[c].made
           /\ connStatus[calls[c].made] # "ready"

Names(answer) == {p[1] : p \in answer}

\* The result p was already among those of c's healthCheckAll before the step.
HadAnswer(c, p) ==
    calls[c].op = "healthCheckAll" /\ calls[c].pc = "ping" /\ p \in calls[c].answer

\* C22: healthCheck(serviceName) never raises. It returns false, without a
\* probe, when no connection is tracked for the name or the tracked one is not
\* ready; after a probe it returns true exactly when the probe was answered,
\* which only a ready connection to a reachable backend does, and false when
\* the ping failed or timed out. healthCheckAll never raises either and returns
\* one such boolean for every service name tracked when it returns.
C22_HealthCheckNeverRaises ==
    [][\A c \in Callers :
         /\ \A s \in Services :
              (HealthCheck(c, s)
                 /\ (connections[s] = 0 \/ connStatus[connections[s]] # "ready"))
              => calls'[c].pc = "done" /\ calls'[c].answer = {<<s, FALSE>>}
         /\ \A s \in Services :
              (HealthCheck(c, s) /\ calls'[c].pc = "ping")
              => calls'[c].conn = connections[s] /\ connStatus[connections[s]] = "ready"
         /\ \A pong \in BOOLEAN :
              HealthDone(c, pong)
              => /\ calls'[c].pc = "done" /\ calls'[c].answer = {<<calls[c].svc, pong>>}
                 /\ pong => (connStatus[calls[c].conn] = "ready" /\ backend = "up")
         /\ \A pong \in BOOLEAN :
              HealthAllDone(c, pong)
              => /\ <<calls[c].svc, pong>> \in calls'[c].answer
                 /\ pong => (connStatus[calls[c].conn] = "ready" /\ backend = "up")
         /\ (HealthCheckAll(c) \/ \E pong \in BOOLEAN : HealthAllDone(c, pong))
              => /\ \A p \in calls'[c].answer :
                      (p[2] = TRUE /\ ~HadAnswer(c, p))
                      => p[1] = calls[c].svc /\ calls[c].pc = "ping"
                 /\ calls'[c].pc = "done"
                      => /\ Tracked \subseteq Names(calls'[c].answer)
                         /\ Cardinality(calls'[c].answer)
                              = Cardinality(Names(calls'[c].answer))
         /\ calls'[c].op \in {"healthCheck", "healthCheckAll"}
              => calls'[c].result = 0 /\ calls'[c].pc \in {"ping", "done"}
      ]_vars

\* healthCheckAll has returned true for one tracked service and false for the
\* other.
C22_Witness ==
    \E c \in Callers :
        /\ calls[c].op = "healthCheckAll" /\ calls[c].pc = "done"
        /\ calls[c].answer = {<<"http-server", TRUE>>, <<"socket-server", FALSE>>}

\* C24: in every state getActiveConnections() returns exactly the tracked
\* service names whose connection is ready: a name whose connection is
\* connecting, reconnecting or ended is not listed, and no ready one is left
\* out.
C24_ActiveAreTheReadyOnes ==
    [][\A c \in Callers :
         GetActiveConnections(c)
         => /\ calls'[c].pc = "done"
            /\ Names(calls'[c].answer)
                 = {s \in Services : connections[s] # 0
                                       /\ connStatus[connections[s]] = "ready"}
            /\ \A s \in Services :
                 (connections[s] # 0 /\ connStatus[connections[s]]
                                          \in {"connecting", "reconnecting", "end"})
                 => s \notin Names(calls'[c].answer)
      ]_vars

\* getActiveConnections has listed one service and left out the other, which
\* is tracked with a connection that is not ready.
C24_Witness ==
    \E c \in Callers :
        /\ calls[c].op = "getActiveConnections" /\ calls[c].pc = "done"
        /\ Names(calls[c].answer) = {"http-server"}
        /\ connections["http-server"] # 0
        /\ connections["socket-server"] # 0
        /\ connStatus[connections["socket-server"]] = "reconnecting"

\* C25: getConnectionInfo(serviceName?) changes nothing: the tracked
\* connections, every connection's status and the connections that exist are
\* the same after the call as before it. For a name that is not tracked it
\* returns status not_found and creates no connection; for a tracked name it
\* returns that connection's status, and without a name the status of every
\* tracked name.
C25_InfoChangesNothing ==
    [][\A c \in Callers, s \in Services \cup {""} :
         GetConnectionInfo(c, s)
         => /\ connections' = connections
            /\ connStatus' = connStatus
            /\ connOwner' = connOwner
            /\ calls'[c].pc = "done"
            /\ (s # "" /\ connections[s] = 0)
                 => calls'[c].answer = {<<s, "not_found">>}
            /\ (s # "" /\ connections[s] # 0)
                 => calls'[c].answer = {<<s, connStatus[connections[s]]>>}
            /\ s = ""
                 => calls'[c].answer
                      = {<<n, connStatus[connections[n]]>> :
                            n \in {x \in Services : connections[x] # 0}}
      ]_vars

\* getConnectionInfo has answered not_found for a name that is not tracked,
\* while the other service has a tracked connection.
C25_Witness ==
    \E c \in Callers, s \in Services, o \in Services :
        /\ calls[c].op = "getConnectionInfo" /\ calls[c].pc = "done"
        /\ calls[c].answer = {<<s, "not_found">>}
        /\ connections[s] = 0 /\ connections[o] # 0

-----------------------------------------------------------------------------
(* Claims about batches, channels and the held connection *)

\* The value stored in the backend under the full key ck, parsed, or null when
\* no live entry is there.
StoredValue(ck) ==
    IF ck \in DOMAIN store /\ now < store[ck].exp THEN JsonParse(store[ck].val)
    ELSE VNull

\* C26: getBatch(keys, namespace) returns a map whose key set is exactly the
\* requested keys, whatever their order and whichever of them miss; when the
\* backend answers the MGET each requested key maps to the value stored under
\* that key in that namespace, or to null when the key is missing, and when it
\* does not every key maps to null.
C26_BatchKeepsCorrespondence ==
    [][\A keys \in SvcKeyLists, ns \in SvcNamespaces, cmdFail \in BOOLEAN :
         GetBatch(keys, ns, cmdFail)
         => /\ ~last'.raised
            /\ last'.ret.t = "map"
            /\ DOMAIN last'.ret.m = {keys[i] : i \in DOMAIN keys}
            /\ (backend = "up" /\ ~cmdFail /\ (held = "ready" => subs = {}))
                 => /\ ~last'.failed
                    /\ \A i \in DOMAIN keys :
                         last'.ret.m[keys[i]] = StoredValue(generateKey(keys[i], ns))
            /\ last'.failed => \A i \in DOMAIN keys : last'.ret.m[keys[i]] = VNull
      ]_vars

\* A getBatch of two keys has returned the stored value for the second key it
\* was given and null for the first, which is missing.
C26_Witness ==
    /\ last.op = "getBatch" /\ ~last.failed /\ Len(last.ck) = 2
    /\ last.ret.m[last.ck[1]] = VNull
    /\ last.ret.m[last.ck[2]] = VCount(3)
    /\ generateKey(last.ck[2], "appointments") \in DOMAIN store
    /\ generateKey(last.ck[1], "appointments") \notin DOMAIN store

\* C27: for a callback registered with subscribe(channel, callback), a message
\* published with publish(channel, data) after the subscription (backend
\* reachable, the command not failing) goes out on the channel and reaches the
\* callback as exactly the inner data, and it reaches no callback registered
\* for another channel.
C27_PublishedReachesSubscriber ==
    [][\A c \in SvcChannels :
         (/\ Publish(c, VCount(3), FALSE)
          /\ backend = "up" /\ held = "ready" /\ c \in subs)
         => /\ Len(published') = Len(published) + 1
            /\ OnMessage(c, published'[Len(published')]) = <<ToJsonValue(VCount(3))>>
            /\ OnMessage(InvalidateChannel, published'[Len(published')]) = <<>>
      ]_vars

\* C28: ensure-connection. Every backend operation of the instance that finds
\* the held connection absent or not ready asks the pool for a connection
\* first: with the backend reachable it goes on with a ready connection, and
\* with the backend away it fails without raising and changes nothing. In
\* particular a set made after cleanup() acquires a new connection and, the
\* backend answering, stores its value, and the get that follows it returns
\* the stored value.
C28_ReacquiresBeforeEveryOperation ==
    [][/\ (nops' = nops + 1 /\ last'.op # "cleanup" /\ held # "ready")
            => /\ ~last'.raised
               /\ backend = "up" => held' = "ready"
               /\ backend # "up" => (last'.failed /\ store' = store /\ held' = held)
       /\ \A k \in SvcKeys, v \in SvcValues, ttl \in {VUndef, VNum(1)},
             ns \in SvcNamespaces :
            (Set(k, v, ttl, ns, FALSE) /\ held = "none" /\ backend = "up")
            => /\ ~last'.failed
               /\ store'[generateKey(k, ns)].val = JsonStringify(v)
               /\ lastSet'[generateKey(k, ns)].fresh
       /\ \A k \in SvcKeys, ns \in SvcNamespaces :
            (/\ Get(k, ns, FALSE) /\ backend = "up"
             /\ last.op = "set" /\ ~last.failed /\ last.ck = generateKey(k, ns))
            => /\ ~last'.failed
               /\ last'.ret = ToJsonValue(lastSet[generateKey(k, ns)].val)
      ]_vars

\* After a cleanup of the initialized service, a set acquired a new
\* connection and the get that followed returned the value it stored.
C28_Witness ==
    /\ nops = 3 /\ last.op = "get" /\ ~last.failed
    /\ last.ck \in DOMAIN lastSet
    /\ lastSet[last.ck].fresh
    /\ lastSet[last.ck].val = VCount(3)
    /\ last.ret = VCount(3)
    /\ held = "ready"

\* C29: a deleteByPattern whose pattern matches no key (the backend answering
\* the search) completes without an error, sends no delete command to the
\* backend (a delete that would fail does not fail the call) and leaves every
\* stored entry as it was.
C29_NoMatchNoDelete ==
    [][\A p \in SvcPatterns \ {<<>>}, ns \in SvcNamespaces, delFail \in BOOLEAN :
         (/\ DeleteByPattern(p, ns, FALSE, delFail)
          /\ backend = "up" /\ (held = "ready" => subs = {})
          /\ \A k \in DOMAIN store : ~(now < store[k].exp /\ GlobMatch(generateKey(p, ns), k)))
         => /\ ~last'.raised /\ ~last'.failed
            /\ store' = store
            /\ lastSet' = lastSet
      ]_vars

\* A deleteByPattern that matched nothing has returned, and the entry written
\* before it for another patient is still stored.
C29_Witness ==
    /\ nops = 2 /\ last.op = "deleteByPattern" /\ ~last.failed
    /\ last.ck = generateKey(PatientPattern(P123), "appointments")
    /\ DOMAIN store = {generateKey(PatientKey(P9, <<>>), "appointments")}
    /\ DOMAIN lastSet = DOMAIN store

-----------------------------------------------------------------------------
(* Claims about reads that overlap a mutation *)

\* No request is in flight and no invalidation is left to run.
Quiescent == \A i \in DOMAIN reqs : reqs[i].pc \in {"done", "error"}

\* C30: under concurrent requests, in every state where all requests have
\* finished (the invalidations of the mutations included), no cached entry
\* holds a payload older than the last committed mutation of its namespace.
C30_NoStaleEntryAtRest ==
    Quiescent => \A k \in DOMAIN store : JsonParse(store[k].val).ver >= db

-----------------------------------------------------------------------------
(* Claims about subscriptions and key-value operations *)

\* C36: subscribe(channel, callback) does not impair the key-value operations
\* of the instance: with a subscription on the connection in hand (backend
\* reachable, no command failing), a set stores its value and a get of a stored
\* key returns the stored value.
C36_SubscribeKeepsKeyValueOps ==
    [][/\ \A k \in SvcKeys, v \in SvcValues, ttl \in {VUndef, VNum(1)},
             ns \in SvcNamespaces :
            (Set(k, v, ttl, ns, FALSE) /\ backend = "up" /\ held = "ready" /\ subs # {})
            => /\ ~last'.failed
               /\ RedisGet(store', now, generateKey(k, ns)) = JsonStringify(v)
       /\ \A k \in SvcKeys, ns \in SvcNamespaces :
            (/\ Get(k, ns, FALSE) /\ backend = "up" /\ held = "ready" /\ subs # {}
             /\ RedisGet(store, now, generateKey(k, ns)) # RNil)
            => /\ ~last'.failed
               /\ last'.ret = JsonParse(RedisGet(store, now, generateKey(k, ns)))
      ]_vars

\* C35: once closeConnection(serviceName) has returned, the pool no longer
\* tracks the connection it was asked to close under serviceName, and once
\* closeAll() has returned it tracks none of the connections it was asked to
\* close, whether or not their quit succeeded.
C35_CloseUntracks ==
    [][\A c \in Callers :
         /\ \A ok \in BOOLEAN :
              CloseDone(c, ok) => connections'[calls[c].svc] # calls[c].conn
         /\ \A i \in ConnIds, ok \in BOOLEAN :
              CloseAllDone(c, i, ok) => connections'[connOwner[i]] # i
      ]_vars

-----------------------------------------------------------------------------
(* Claims about what a cached payload carries *)

\* C31: the payload served on a cache hit never carries the identity fields
\* (accessedBy) computed for another requester: a GET answered from the cache
\* receives a body whose accessedBy is its own requester.
C31_HitCarriesOwnIdentity ==
    \A i \in DOMAIN reqs :
        (reqs[i].kind = "GET" /\ Responded(reqs[i]) /\ reqs[i].served = "cache")
        => JsonParse(reqs[i].resp).by = reqs[i].user

\* C32: the resource-specific key generators are injective on the input the
\* handler uses: two GET requests to the same route for which the handler runs
\* different queries never get the same cache key.
C32_KeysSeparateQueries ==
    /\ (kg.gen = "bills" /\ kg.path = <<"/", "getAllBill">>
           /\ billsQuery(kg.q1) # billsQuery(kg.q2))
         => kg.k1 # kg.k2
    /\ (kg.gen = "appointments" /\ kg.path = <<"/">>
           /\ appointmentsQuery(kg.q1) # appointmentsQuery(kg.q2))
         => kg.k1 # kg.k2

-----------------------------------------------------------------------------
(* Claims about namespaces and expirations *)

\* The stored keys of a namespace: those that begin with prefix:namespace:
Under(ns) ==
    {k \in DOMAIN store : Len(k) >= 4 /\ SubSeq(k, 1, 4) = <<EnvPrefix, ":", ns, ":">>}

\* C33: invalidating one namespace never removes entries of another: for two
\* distinct configured namespaces A and B and any pattern (none, which means
\* *, included), invalidateCache(A, pattern) leaves every entry stored under B
\* as it was, whatever the backend does to the call.
C33_InvalidationStaysInNamespace ==
    [][\A a \in NsNames, p \in NsPatterns, f \in BOOLEAN, g \in BOOLEAN, h \in BOOLEAN :
         InvalidateCache(a, p, f, g, h)
         => \A b \in NsNames \ {a} : \A k \in Under(b) :
               k \in DOMAIN store' /\ store'[k] = store[k]
      ]_vars

\* invalidateCache("appointments", "*patient:123*") has returned without a
\* failure and published its message; the entry of the same key name under
\* patients is still stored and appointments holds no entry of that name.
C33_Witness ==
    /\ nops = 3 /\ last.op = "invalidateCache" /\ ~last.failed
    /\ last.ck = generateKey(PatientPattern(P123), "appointments")
    /\ Len(published) = 1
    /\ generateKey(PatientKey(P123, <<>>), "patients") \in DOMAIN store
    /\ generateKey(PatientKey(P123, <<>>), "appointments") \notin DOMAIN store

\* cacheData(namespace, key, data, ttl = 300): `await this.set(key, data,
\* {namespace, ttl})`. The read-through wrapper stores through this call, with
\* `options.ttl` as its ttl.
CacheData(ns, key, data, ttlOpt, cmdFail) ==
    Set(key, data, CacheDataTtl(ttlOpt), ns, cmdFail)

ExpiryTtls == {VUndef, VNum(0), VNum(MaxTtl), VNum(0 - 1)}
ExpiryBatches ==
    {<<[key |-> PatientKey(P123, <<>>), value |-> VCount(3), ttl |-> t1],
       [key |-> PatientKey(P9, <<>>), value |-> VNum(0), ttl |-> t2]>> :
       t1 \in {VNum(0), VNum(MaxTtl)}, t2 \in {VUndef, VNum(0 - 1)}}

ExpiryValues == {VCount(3)}

ExpiryNext ==
    \/ \E k \in TtlKeys, v \in ExpiryValues, ttl \in ExpiryTtls, ns \in SvcNamespaces,
          f \in BOOLEAN : Set(k, v, ttl, ns, f) /\ SvcOther
    \/ \E items \in ExpiryBatches, ns \in SvcNamespaces, f \in BOOLEAN :
          SetBatch(items, ns, f) /\ SvcOther
    \/ \E k \in TtlKeys, v \in ExpiryValues, ttl \in ExpiryTtls, ns \in SvcNamespaces,
          f \in BOOLEAN : CacheData(ns, k, v, ttl, f) /\ SvcOther
    \/ Tick /\ SvcOther

\* Every writing operation of the service, with ttls given, omitted, zero and
\* negative, while time passes.
SpecExpiry == SvcInit /\ [][ExpiryNext]_vars

\* The step stored an entry under ck, or replaced the one it held.
Written(ck) ==
    /\ ck \in DOMAIN store'
    /\ ck \notin DOMAIN store \/ store'[ck] # store[ck]

\* Seconds the entry the step stored under ck has left to live.
Expiry(ck) == store'[ck].exp - now

\* The ttl a caller of set or setBatch gets: its own, or the default.
GivenOr(ttlOpt, d) == IF ttlOpt = VUndef THEN d ELSE IF ttlOpt.n = 0 THEN d ELSE ttlOpt.n

\* Every write stores a positive ttl: the caller's, 3600 s when set or setBatch
\* is given none or zero, 300 s when cacheData is given none, and `zero` when
\* cacheData is given zero.
EntriesExpire(zero) ==
    /\ \A ck \in DOMAIN store' : Written(ck) => Expiry(ck) > 0
    /\ \A k \in TtlKeys, v \in ExpiryValues, ttl \in ExpiryTtls, ns \in SvcNamespaces,
          f \in BOOLEAN :
          /\ Set(k, v, ttl, ns, f) /\ Written(generateKey(k, ns))
                => Expiry(generateKey(k, ns)) = GivenOr(ttl, DefaultTTL)
          /\ CacheData(ns, k, v, ttl, f) /\ Written(generateKey(k, ns))
                => Expiry(generateKey(k, ns)) =
                      IF ttl = VUndef THEN CacheDataTTL ELSE GivenOr(ttl, zero)
    /\ \A items \in ExpiryBatches, ns \in SvcNamespaces, f \in BOOLEAN :
          SetBatch(items, ns, f) =>
             \A i \in DOMAIN items :
                Written(generateKey(items[i].key, ns))
                   => Expiry(generateKey(items[i].key, ns))
                         = GivenOr(items[i].ttl, DefaultTTL)

\* C34 as stated: every entry set, setBatch and cacheData write is stored with
\* a positive ttl, and a ttl omitted or zero becomes 3600 s for set and
\* setBatch and 300 s for cacheData.
C34_ZeroTtlOfCacheDataIs300 == [][EntriesExpire(CacheDataTTL)]_vars

\* C34, amended: every entry set, setBatch and cacheData write is stored with
\* a positive ttl; a ttl omitted or zero becomes 3600 s for set and setBatch,
\* a ttl omitted becomes 300 s for cacheData, and a ttl of zero given to
\* cacheData becomes 3600 s, the default of the set it calls.
C34_EveryEntryExpires == [][EntriesExpire(DefaultTTL)]_vars

\* cacheData was given no ttl for one key and zero for another: the first
\* entry is stored for 300 s, the second for 3600 s.
C34_Witness ==
    \E k1, k2 \in DOMAIN store \cap DOMAIN lastSet :
       /\ lastSet[k1].ttl = VNum(CacheDataTTL)
       /\ store[k1].exp = lastSet[k1].t + CacheDataTTL
       /\ lastSet[k2].ttl = VNum(0)
       /\ store[k2].exp = lastSet[k2].t + DefaultTTL

====
